---- MODULE Spec2Model ----
(***************************************************************************)
(* binance-trader: the websocket transport (internal/websocket), the       *)
(* exchange facade (internal/api), the order manager                       *)
(* (internal/ordermanager) and the market maker (internal/trader),         *)
(* modelled as interleaved goroutines over shared state.                   *)
(*                                                                         *)
(* Time is abstract: a timer (time.After, the ticker, time.Sleep) may fire *)
(* at any moment after it was armed.  The exchange sends well-formed       *)
(* envelopes {id, status, result | error}, so the closures' JSON parsing   *)
(* succeeds.  API keys are set (AuthenticateAPIKeys returns nil).          *)
(***************************************************************************)
EXTENDS Integers, Sequences, FiniteSets, Bags, TLC

(* ---- bounds of the model ---- *)
NClients == 2        \* concurrent facade callers
MaxCalls == 2        \* facade calls made by those callers
MaxDup == 1          \* responses that arrive a second time
MaxConn == 2         \* connections established (Connect and reconnections)
MaxBreaks == 1       \* network failures
MaxCloses == 2       \* calls of Close
MaxApi == 3          \* calls of Start and Stop
MaxTicks == 1        \* ticks of the ticker one tradingLoop sees
MaxLoops == 2        \* tradingLoop goroutines spawned
MaxMMCalls == 5      \* facade calls made by the market maker
MaxOrderId == 2      \* exchange order ids passed to the order manager
MaxClientId == 2     \* client order ids passed to it, besides the empty one
MaxOps == 3          \* direct calls of the order manager
MaxLevels == 2       \* price levels on one side of the order book
MaxParams == 3       \* parameters of one signed request

(* ---- program constants ---- *)
maxAttempts == 5     \* attemptReconnect: maxAttempts := 5
BaseDelay == 1       \* attemptReconnect: delay := 1 * time.Second
ChanCap == 1         \* make(chan ..., 1) in every facade call

Clients == 1 .. NClients
MainCaller == 0          \* the goroutine that owns the client (func main)
LoopCaller(l) == 0 - l   \* the l-th tradingLoop goroutine
Callers == {MainCaller} \cup Clients \cup {LoopCaller(l) : l \in 1 .. MaxLoops}

\* the number of price levels on each side of an order book: none
NoLevels == [bids |-> 0, asks |-> 0]
NoResult == [orderId |-> 0, clientOrderId |-> 0, status |-> "", levels |-> NoLevels]
NoArg == [orderId |-> 0, side |-> ""]

VARIABLES
  connection,        \* Client.connection: 0 is nil, g > 0 the g-th connection
  alive,             \* connections on which reads and writes still succeed
  nconn,             \* connections established so far
  reconnecting,      \* Client.reconnecting
  responseHandlers,  \* Client.responseHandlers: request id -> handler (a call number)
  wsMu,              \* Client.mu: 0 when free, else the call whose write holds it
  done,              \* Client.done is closed
  panicked,          \* "" or the cause of the panic that ended the process
  nextId,            \* request ids generated so far (uuid.New is fresh)
  readers,           \* readMessages goroutines: sequence of [pc, conn]
  rc,                \* reconnection goroutines: sequence of [pc, attempts, delay]
  hm,                \* handleMessage goroutines: set of [msg, pc, h]
  wire,              \* requests written, not yet answered by the exchange
  inbox,             \* responses in flight to the client
  breaks, closes, dups,  \* environment counters
  calls,             \* facade calls in use: call number -> call record
  ncalls,            \* facade calls begun so far
  cur,               \* caller -> the number of its call in progress (0: none)
  reg,               \* the order manager: [orders, clientOrders, heap]
  omMu,              \* Manager.mu: [w: held for writing, r: the read locks held]
  om,                \* the caller of the order manager: its call and what it returned
  resting,           \* exchange: order ids resting on the book
  norders,           \* exchange: order ids assigned so far
  active,            \* MarketMaker.active
  mmMu,              \* MarketMaker.mu: "" when free, else the function that holds it
  ctxDone,           \* MarketMaker.ctx is cancelled
  quote,             \* one refresh of the market maker: the book, the prices, the orders placed
  util,              \* one call of a function of package utils: its inputs and its result
  activeOrders,      \* MarketMaker.activeOrders: order id -> side
  mainPc,            \* the owner's position inside Start or Stop
  stopRead,          \* Stop: activeOrdersRead, the entries not yet cancelled
  loops,             \* tradingLoop goroutines: sequence of [pc, read, side, oid, ticks]
  napi,              \* Start and Stop calls made so far
  hist               \* what the program did so far (for the properties)

cvars == <<connection, alive, nconn, reconnecting, rc>>
tvars == <<cvars, responseHandlers, wsMu, done, panicked, nextId, readers, hm, wire,
           inbox, breaks, closes, dups>>
fvars == <<calls, ncalls, cur, reg, omMu, om, resting, norders>>
mvars == <<active, mmMu, ctxDone, quote, util, activeOrders, mainPc, stopRead, loops, napi, hist>>
vars == <<tvars, fvars, mvars>>

NoHistory == [startNoops |-> FALSE, stopNoops |-> FALSE, drained |-> {}, placed |-> {},
              cancelIssued |-> {}, stopCancels |-> {}, writeFailed |-> FALSE,
              exhausted |-> FALSE]

\* Manager.mu when nobody holds it
FreeMu == [w |-> FALSE, r |-> 0]

\* the caller of the order manager before its first call
NoOmCall == [op |-> "", pc |-> "idle", id |-> 0, arg |-> NoResult, err |-> "", ptr |-> 0,
             list |-> EmptyBag, n |-> 0]

\* no call of package utils in progress
NoUtil == [fn |-> "", pc |-> "idle", price |-> [n |-> 0, s |-> 0], tickSize |-> <<>>, secretKey |-> "",
           ins |-> <<>>, iter |-> <<>>, out |-> <<>>]

\* no refresh in progress
NoQuote == [orderbook |-> [bids |-> <<>>, asks |-> <<>>], spreadPercentage |-> [n |-> 0, s |-> 0],
            tickSize |-> <<>>, pc |-> "idle", bidPrice |-> <<>>, askPrice |-> <<>>,
            placed |-> <<>>]

(* ---- small helpers ---- *)
Put(f, k, v) == [x \in (DOMAIN f) \cup {k} |-> IF x = k THEN v ELSE f[x]]
Del(f, k) == [x \in (DOMAIN f) \ {k} |-> f[x]]
EmptyMap == [x \in {} |-> 0]
Range(f) == {f[x] : x \in DOMAIN f}

(* ---- internal/ordermanager ---- *)
\* orders and clientOrders hold references into heap (the *OrderState pointers);
\* an OrderState no map refers to is garbage and leaves the heap
NewManager == [orders |-> EmptyMap, clientOrders |-> EmptyMap, heap |-> EmptyMap]

NewRef(heap) == CHOOSE n \in 1 .. Cardinality(DOMAIN heap) + 1 :
                  /\ n \notin DOMAIN heap
                  /\ \A j \in 1 .. n - 1 : j \in DOMAIN heap

Collected(orders, clientOrders, heap) ==
  [orders |-> orders, clientOrders |-> clientOrders,
   heap |-> [r \in (DOMAIN heap) \cap (Range(orders) \cup Range(clientOrders)) |-> heap[r]]]

\* a faulty TrackOrder: one OrderState for each of the two maps
TrackOrderTwoStates(m, order) ==
  LET ref == NewRef(m.heap)
      heap1 == Put(m.heap, ref, [order |-> order, updated |-> FALSE])
      ref2 == NewRef(heap1)
  IN
  Collected(Put(m.orders, order.orderId, ref),
            IF order.clientOrderId # 0
            THEN Put(m.clientOrders, order.clientOrderId, ref2)
            ELSE m.clientOrders,
            Put(heap1, ref2, [order |-> order, updated |-> FALSE]))

\* Manager.TrackOrder: a fresh OrderState, stored under the order id and,
\* when the client order id is not empty (0), under the client order id
TrackOrder(m, order) ==
  LET ref == NewRef(m.heap) IN
  Collected(Put(m.orders, order.orderId, ref),
            IF order.clientOrderId # 0
            THEN Put(m.clientOrders, order.clientOrderId, ref)
            ELSE m.clientOrders,
            Put(m.heap, ref, [order |-> order, updated |-> FALSE]))

\* the OrderState UpdateOrder finds: by order id, else by client order id; 0: none
UpdateTarget(m, order) ==
  IF order.orderId \in DOMAIN m.orders THEN m.orders[order.orderId]
  ELSE IF order.clientOrderId \in DOMAIN m.clientOrders
       THEN m.clientOrders[order.clientOrderId]
       ELSE 0

\* a faulty UpdateOrder: an order it does not find is inserted
UpdateOrderUpsert(m, order) ==
  LET ref == UpdateTarget(m, order) IN
  IF ref = 0 THEN TrackOrder(m, order)
  ELSE [m EXCEPT !.heap[ref] = [order |-> order, updated |-> TRUE]]

\* Manager.UpdateOrder: the manager afterwards (unchanged when it returns the error)
UpdateOrder(m, order) ==
  LET ref == UpdateTarget(m, order) IN
  IF ref = 0 THEN m
  ELSE [m EXCEPT !.heap[ref] = [order |-> order, updated |-> TRUE]]

\* Manager.GetOrder
HasOrder(m, orderId) == orderId \in DOMAIN m.orders
GetOrder(m, orderId) == m.heap[m.orders[orderId]].order

(* ---- facade calls (internal/api/client.go) ---- *)
FacadeOps == {"depth", "order.place", "order.cancel", "order.status", "account.status"}

NewCall(c, op, arg) ==
  [caller |-> c, op |-> op, arg |-> arg, st |-> "sr_check", id |-> 0, retId |-> 0,
   conn |-> 0, res |-> <<>>, err |-> <<>>, log |-> <<>>, out |-> "none", val |-> NoResult]

\* the caller enters a facade operation: channels made, SendRequest about to run
BeginCall(c, op, arg) ==
  /\ cur[c] = 0
  /\ calls' = Put(calls, ncalls + 1, NewCall(c, op, arg))
  /\ ncalls' = ncalls + 1
  /\ cur' = [cur EXCEPT ![c] = ncalls + 1]

Returned(c) == cur[c] # 0 /\ calls[cur[c]].st = "ret"

\* a call whose caller has left keeps its closure and channels while the
\* dispatch table or a handleMessage goroutine still refers to it
Referenced(k, rh, tasks) == k \in Range(rh) \/ \E t \in tasks : t.h = k
InUse(cs, rh, tasks) ==
  [k \in {j \in DOMAIN cs : cs[j].st # "gone" \/ Referenced(j, rh, tasks)} |-> cs[k]]
Gone(call) == [call EXCEPT !.st = "gone", !.arg = NoArg, !.retId = 0, !.conn = 0,
                           !.out = "none", !.val = NoResult]

\* the calls after caller c took the outcome of its call and left the operation
Leave(c) == InUse([calls EXCEPT ![cur[c]] = Gone(@)], responseHandlers, hm)

(* ---- internal/websocket: Client.attemptReconnect ---- *)
\* a faulty attemptReconnect: the reconnecting flag is not tested
attemptReconnectUnguarded ==
  /\ wsMu = 0
  /\ reconnecting' = TRUE
  /\ alive' = alive \ {connection}
  /\ connection' = 0
  /\ rc' = Append(rc, [pc |-> "dial", attempts |-> 0, delay |-> BaseDelay])

\* the part that runs under the lock in the caller's goroutine
attemptReconnect ==
  /\ wsMu = 0
  /\ IF reconnecting
     THEN UNCHANGED <<connection, alive, reconnecting, rc>>
     ELSE /\ reconnecting' = TRUE
          /\ alive' = alive \ {connection}
          /\ connection' = 0
          /\ rc' = Append(rc, [pc |-> "dial", attempts |-> 0, delay |-> BaseDelay])

\* a faulty reconnection: a successful dial starts with an empty dispatch table
RC_DialFlushing(i) ==
  /\ panicked = ""
  /\ rc[i].pc = "dial"
  /\ \/ /\ nconn < MaxConn
        /\ wsMu = 0
        /\ nconn' = nconn + 1
        /\ connection' = nconn + 1
        /\ alive' = alive \cup {nconn + 1}
        /\ reconnecting' = FALSE
        /\ readers' = Append(readers, [pc |-> "select", conn |-> 0])
        /\ rc' = [rc EXCEPT ![i].pc = "done"]
        /\ responseHandlers' = EmptyMap
     \/ /\ rc' = [rc EXCEPT ![i].pc = "sleep", ![i].attempts = @ + 1]
        /\ UNCHANGED <<nconn, connection, alive, reconnecting, readers, responseHandlers>>
  /\ UNCHANGED <<wsMu, done, panicked, nextId, hm, wire, inbox,
                 breaks, closes, dups, fvars, mvars>>

\* the goroutine: one Dial
RC_Dial(i) ==
  /\ panicked = ""
  /\ rc[i].pc = "dial"
  /\ \/ /\ nconn < MaxConn
        /\ wsMu = 0
        /\ nconn' = nconn + 1
        /\ connection' = nconn + 1
        /\ alive' = alive \cup {nconn + 1}
        /\ reconnecting' = FALSE
        /\ readers' = Append(readers, [pc |-> "select", conn |-> 0])
        /\ rc' = [rc EXCEPT ![i].pc = "done"]
     \/ /\ rc' = [rc EXCEPT ![i].pc = "sleep", ![i].attempts = @ + 1]
        /\ UNCHANGED <<nconn, connection, alive, reconnecting, readers>>
  /\ UNCHANGED <<responseHandlers, wsMu, done, panicked, nextId, hm, wire, inbox,
                 breaks, closes, dups, fvars, mvars>>

\* a faulty backoff: the delay stays what it was
BackoffFixed(delay) == delay

\* delay *= 2
Backoff(delay) == delay * 2

\* time.Sleep(delay) is over; delay *= 2; the loop condition
RC_Wake(i) ==
  /\ panicked = ""
  /\ rc[i].pc = "sleep"
  /\ rc' = [rc EXCEPT ![i].delay = Backoff(@),
                      ![i].pc = IF rc[i].attempts < maxAttempts THEN "dial" ELSE "giveup"]
  /\ UNCHANGED <<connection, alive, nconn, reconnecting, responseHandlers, wsMu, done,
                 panicked, nextId, readers, hm, wire, inbox, breaks, closes, dups, fvars, mvars>>

RC_GiveUp(i) ==
  /\ panicked = ""
  /\ rc[i].pc = "giveup"
  /\ wsMu = 0
  /\ reconnecting' = FALSE
  /\ rc' = [rc EXCEPT ![i].pc = "done"]
  /\ hist' = [hist EXCEPT !.exhausted = TRUE]
  /\ UNCHANGED <<connection, alive, nconn, responseHandlers, wsMu, done,
                 panicked, nextId, readers, hm, wire, inbox, breaks, closes, dups, fvars,
                 active, mmMu, ctxDone, quote, util, activeOrders, mainPc, stopRead, loops, napi>>

(* ---- internal/websocket: Client.SendRequest, one facade call k ---- *)
\* c.connection == nil
NoConnection == connection = 0

\* RLock; connection == nil ? ; requestID := uuid.New(); RUnlock
SR_Check(k) ==
  /\ panicked = ""
  /\ calls[k].st = "sr_check"
  /\ wsMu = 0
  /\ IF NoConnection
     THEN /\ calls' = [calls EXCEPT ![k].st = "ret", ![k].out = "senderr"]
          /\ UNCHANGED nextId
     ELSE /\ nextId' = nextId + 1
          /\ calls' = [calls EXCEPT ![k].st = "sr_reg", ![k].id = nextId + 1]
  /\ UNCHANGED <<connection, alive, nconn, reconnecting, responseHandlers, wsMu, done,
                 panicked, readers, rc, hm, wire, inbox, breaks, closes, dups,
                 ncalls, cur, reg, omMu, om, resting, norders, mvars>>

\* a faulty registration: every handler under one and the same key
RegisterKeyShared(k) == 1

\* the key under which SendRequest registers the handler of call k
RegisterKey(k) == calls[k].id

\* Lock; responseHandlers[requestID] = handler; Unlock
SR_Register(k) ==
  /\ panicked = ""
  /\ calls[k].st = "sr_reg"
  /\ wsMu = 0
  /\ responseHandlers' = Put(responseHandlers, RegisterKey(k), k)
  /\ calls' = [calls EXCEPT ![k].st = "sr_lock"]
  /\ UNCHANGED <<connection, alive, nconn, reconnecting, wsMu, done, panicked, nextId,
                 readers, rc, hm, wire, inbox, breaks, closes, dups,
                 ncalls, cur, reg, omMu, om, resting, norders, mvars>>

\* Lock; connection == nil ? ; WriteMessage begins with the lock held
SR_Lock(k) ==
  /\ panicked = ""
  /\ calls[k].st = "sr_lock"
  /\ wsMu = 0
  /\ IF NoConnection
     THEN /\ calls' = [calls EXCEPT ![k].st = "ret", ![k].out = "senderr"]
          /\ UNCHANGED wsMu
     ELSE /\ calls' = [calls EXCEPT ![k].st = "sr_writing", ![k].conn = connection]
          /\ wsMu' = k
  /\ UNCHANGED <<connection, alive, nconn, reconnecting, responseHandlers, done,
                 panicked, nextId, readers, rc, hm, wire, inbox, breaks, closes, dups,
                 ncalls, cur, reg, omMu, om, resting, norders, mvars>>

\* WriteMessage returns; Unlock; on success the id is returned to the caller
SR_WriteDone(k) ==
  /\ panicked = ""
  /\ calls[k].st = "sr_writing"
  /\ wsMu = k
  /\ wsMu' = 0
  /\ IF calls[k].conn \in alive
     THEN /\ wire' = wire \cup {[id |-> calls[k].id, op |-> calls[k].op,
                                 arg |-> calls[k].arg, conn |-> calls[k].conn]}
          /\ calls' = [calls EXCEPT ![k].st = "wait", ![k].retId = calls[k].id]
          /\ UNCHANGED hist
     ELSE /\ calls' = [calls EXCEPT ![k].st = "sr_fail"]
          /\ hist' = [hist EXCEPT !.writeFailed = TRUE]
          /\ UNCHANGED wire
  /\ UNCHANGED <<connection, alive, nconn, reconnecting, responseHandlers, done,
                 panicked, nextId, readers, rc, hm, inbox, breaks, closes, dups,
                 ncalls, cur, reg, omMu, om, resting, norders,
                 active, mmMu, ctxDone, quote, util, activeOrders, mainPc, stopRead, loops, napi>>

\* the write failed: c.attemptReconnect(); return the error
SR_Reconnect(k) ==
  /\ panicked = ""
  /\ calls[k].st = "sr_fail"
  /\ attemptReconnect
  /\ calls' = [calls EXCEPT ![k].st = "ret", ![k].out = "senderr"]
  /\ UNCHANGED <<nconn, responseHandlers, wsMu, done, panicked, nextId, readers, hm,
                 wire, inbox, breaks, closes, dups, ncalls, cur, reg, omMu, om, resting, norders, mvars>>

(* ---- internal/websocket: Client.readMessages, goroutine r ---- *)
\* select { case <-c.done: return; default: c.connection.ReadMessage() }
R_Select(r) ==
  /\ panicked = ""
  /\ readers[r].pc = "select"
  /\ IF done
     THEN readers' = [readers EXCEPT ![r].pc = "exit"] /\ UNCHANGED panicked
     ELSE IF connection = 0
          THEN panicked' = "nil connection" /\ UNCHANGED readers
          ELSE /\ readers' = [readers EXCEPT ![r].pc = "reading", ![r].conn = connection]
               /\ UNCHANGED panicked
  /\ UNCHANGED <<connection, alive, nconn, reconnecting, responseHandlers, wsMu, done,
                 nextId, rc, hm, wire, inbox, breaks, closes, dups, fvars, mvars>>

\* ReadMessage returns a message: go c.handleMessage(message)
R_Read(r) ==
  /\ panicked = ""
  /\ readers[r].pc = "reading"
  /\ readers[r].conn \in alive
  /\ \E m \in inbox :
       /\ m.conn = readers[r].conn
       /\ inbox' = inbox \ {m}
       /\ hm' = hm \cup {[msg |-> m, pc |-> "lookup", h |-> 0]}
  /\ readers' = [readers EXCEPT ![r].pc = "select"]
  /\ UNCHANGED <<connection, alive, nconn, reconnecting, responseHandlers, wsMu, done,
                 panicked, nextId, rc, wire, breaks, closes, dups, fvars, mvars>>

\* ReadMessage returns an error
R_ReadErr(r) ==
  /\ panicked = ""
  /\ readers[r].pc = "reading"
  /\ readers[r].conn \notin alive
  /\ readers' = [readers EXCEPT ![r].pc = "reconn"]
  /\ UNCHANGED <<connection, alive, nconn, reconnecting, responseHandlers, wsMu, done,
                 panicked, nextId, rc, hm, wire, inbox, breaks, closes, dups, fvars, mvars>>

\* c.attemptReconnect(); return
R_Reconnect(r) ==
  /\ panicked = ""
  /\ readers[r].pc = "reconn"
  /\ attemptReconnect
  /\ readers' = [readers EXCEPT ![r].pc = "exit"]
  /\ UNCHANGED <<nconn, responseHandlers, wsMu, done, panicked, nextId, hm,
                 wire, inbox, breaks, closes, dups, fvars, mvars>>

(* ---- the response closures of the facade (internal/api/client.go) ---- *)
\* the closure takes its failure branch (errCh) on the message
IsFailure(op, m) == IF op = "account.status" THEN m.status # 200 ELSE m.error

\* a faulty PlaceOrder closure: the placed order is not tracked
HandlerRegistryUntracked(op, m) ==
  IF IsFailure(op, m) THEN reg
  ELSE IF op = "order.status" THEN TrackOrder(reg, m.result)
  ELSE IF op = "order.cancel" THEN UpdateOrder(reg, m.result)
  ELSE reg

\* the order manager after the closure of a call of operation op ran on m
HandlerRegistry(op, m) ==
  IF IsFailure(op, m) THEN reg
  ELSE IF op \in {"order.place", "order.status"} THEN TrackOrder(reg, m.result)
  ELSE IF op = "order.cancel" THEN UpdateOrder(reg, m.result)
  ELSE reg

(* ---- internal/websocket: Client.handleMessage, goroutine t ---- *)
\* the key handleMessage looks the handler up with
LookupKey(m) == m.id

\* RLock; handler, exists := c.responseHandlers[id]; RUnlock
H_Lookup(t) ==
  /\ panicked = ""
  /\ t.pc = "lookup"
  /\ wsMu = 0
  /\ IF LookupKey(t.msg) \in DOMAIN responseHandlers
     THEN hm' = (hm \ {t}) \cup {[t EXCEPT !.pc = "invoke", !.h = responseHandlers[LookupKey(t.msg)]]}
     ELSE hm' = hm \ {t}
  /\ UNCHANGED <<connection, alive, nconn, reconnecting, responseHandlers, wsMu, done,
                 panicked, nextId, readers, rc, wire, inbox, breaks, closes, dups,
                 fvars, mvars>>

\* the send of the closure of call k on m finds its channel full
HandlerBlocks(k, m) ==
  IF IsFailure(calls[k].op, m) THEN Len(calls[k].err) >= ChanCap
  ELSE Len(calls[k].res) >= ChanCap

\* the calls after the closure of call k ran on m: errCh <- err or resultCh <- result
\* (capacity 1); a send on a full channel never completes
HandlerCalls(k, m) ==
  IF HandlerBlocks(k, m) THEN [calls EXCEPT ![k].log = Append(@, m.id)]
  ELSE IF IsFailure(calls[k].op, m)
       THEN [calls EXCEPT ![k].log = Append(@, m.id), ![k].err = Append(@, "api")]
       ELSE [calls EXCEPT ![k].log = Append(@, m.id), ![k].res = Append(@, m.result)]

\* handler(message): the closure parses the response, updates the order manager
\* and sends on its channel; when the channel is full the goroutine stays there
H_Invoke(t) ==
  /\ panicked = ""
  /\ t.pc = "invoke"
  /\ reg' = HandlerRegistry(calls[t.h].op, t.msg)
  /\ UNCHANGED <<omMu, om>>
  /\ calls' = HandlerCalls(t.h, t.msg)
  /\ hm' = (hm \ {t}) \cup {[t EXCEPT !.pc = IF HandlerBlocks(t.h, t.msg)
                                               THEN "blocked" ELSE "delete"]}
  /\ UNCHANGED <<connection, alive, nconn, reconnecting, responseHandlers, wsMu, done,
                 panicked, nextId, readers, rc, wire, inbox, breaks, closes, dups,
                 ncalls, cur, resting, norders, mvars>>

\* Lock; delete(c.responseHandlers, id); Unlock
H_Delete(t) ==
  /\ panicked = ""
  /\ t.pc = "delete"
  /\ wsMu = 0
  /\ responseHandlers' = Del(responseHandlers, LookupKey(t.msg))
  /\ hm' = hm \ {t}
  /\ calls' = InUse(calls, responseHandlers', hm')
  /\ UNCHANGED <<connection, alive, nconn, reconnecting, wsMu, done,
                 panicked, nextId, readers, rc, wire, inbox, breaks, closes, dups,
                 ncalls, cur, reg, omMu, om, resting, norders, mvars>>

(* ---- the bounded wait of a facade call ---- *)
\* a faulty wait: a select without the time.After arm
WaitArmsUntimed(k) ==
  (IF Len(calls[k].res) > 0 THEN {"result"} ELSE {})
    \cup (IF Len(calls[k].err) > 0 THEN {"error"} ELSE {})

\* the arms of the select that are ready for call k
WaitArms(k) ==
  (IF Len(calls[k].res) > 0 THEN {"result"} ELSE {})
    \cup (IF Len(calls[k].err) > 0 THEN {"error"} ELSE {})
    \cup {"timeout"}

\* select { case <-resultCh; case <-errCh; case <-time.After(5 * time.Second) }
FacadeWait(k) ==
  /\ panicked = ""
  /\ calls[k].st = "wait"
  /\ \E arm \in WaitArms(k) :
       calls' = [calls EXCEPT
                   ![k].st = "ret",
                   ![k].out = arm,
                   ![k].val = IF arm = "result" THEN Head(calls[k].res) ELSE NoResult,
                   ![k].res = IF arm = "result" THEN Tail(@) ELSE @,
                   ![k].err = IF arm = "error" THEN Tail(@) ELSE @]
  /\ UNCHANGED <<tvars, ncalls, cur, reg, omMu, om, resting, norders, mvars>>

(* ---- uninterrupted runs of the transport, used under the market maker ---- *)
\* SendRequest from its first statement to its return, on a live connection
\* with the lock free: the id is generated, the handler registered, the request written
SendRequest(k) ==
  /\ panicked = ""
  /\ calls[k].st = "sr_check"
  /\ wsMu = 0
  /\ connection \in alive
  /\ nextId' = nextId + 1
  /\ responseHandlers' = Put(responseHandlers, nextId + 1, k)
  /\ wire' = wire \cup {[id |-> nextId + 1, op |-> calls[k].op, arg |-> calls[k].arg,
                         conn |-> connection]}
  /\ calls' = [calls EXCEPT ![k].st = "wait", ![k].id = nextId + 1,
                            ![k].retId = nextId + 1, ![k].conn = connection]
  /\ UNCHANGED <<connection, alive, nconn, reconnecting, wsMu, done, panicked, readers,
                 rc, hm, inbox, breaks, closes, dups, ncalls, cur, reg, omMu, om, resting,
                 norders, mvars>>

\* readMessages reads m and handleMessage runs on it from its first statement to
\* its return: lookup, handler(message), delete
Deliver ==
  /\ panicked = ""
  /\ \E m \in inbox : \E r \in 1 .. Len(readers) :
       /\ readers[r].pc = "reading"
       /\ readers[r].conn = m.conn
       /\ m.conn \in alive
       /\ wsMu = 0
       /\ inbox' = inbox \ {m}
       /\ IF LookupKey(m) \in DOMAIN responseHandlers
          THEN LET k == responseHandlers[LookupKey(m)] IN
               /\ reg' = HandlerRegistry(calls[k].op, m)
               /\ UNCHANGED <<omMu, om>>
               /\ IF HandlerBlocks(k, m)
                  THEN /\ hm' = hm \cup {[msg |-> m, pc |-> "blocked", h |-> k]}
                       /\ UNCHANGED responseHandlers
                  ELSE /\ responseHandlers' = Del(responseHandlers, LookupKey(m))
                       /\ UNCHANGED hm
               /\ calls' = InUse(HandlerCalls(k, m), responseHandlers', hm')
          ELSE UNCHANGED <<reg, omMu, om, calls, hm, responseHandlers>>
       /\ UNCHANGED <<connection, alive, nconn, reconnecting, wsMu, done, panicked, nextId,
                      readers, rc, wire, breaks, closes, dups, ncalls, cur, resting, norders,
                      mvars>>

(* ---- the exchange (environment) ---- *)
\* the exchange can carry out the request
CanAccept(req) ==
  IF req.op = "order.cancel" THEN req.arg.orderId \in resting
  ELSE IF req.op = "order.status" THEN req.arg.orderId \in 1 .. norders
  ELSE TRUE

ExOrder(o, st) == [orderId |-> o, clientOrderId |-> o, status |-> st, levels |-> NoLevels]

\* the result of a carried-out request; l: the levels of each side of the book
OkResult(req, l) ==
  IF req.op = "order.place" THEN ExOrder(norders + 1, "NEW")
  ELSE IF req.op = "order.cancel" THEN ExOrder(req.arg.orderId, "CANCELED")
  ELSE IF req.op = "order.status"
       THEN ExOrder(req.arg.orderId,
                    IF req.arg.orderId \in resting THEN "NEW" ELSE "CANCELED")
  ELSE IF req.op = "depth" THEN [NoResult EXCEPT !.levels = [bids |-> l, asks |-> l]]
  ELSE NoResult

Response(req, status, error, result) ==
  [id |-> req.id, copy |-> 1, conn |-> req.conn,
   status |-> status, error |-> error, result |-> result]

\* the exchange carries out a request and answers {id, status: 200, result}
ExchangeAccept ==
  /\ panicked = ""
  /\ \E req \in wire : \E l \in IF req.op = "depth" THEN {0, 1} ELSE {0} :
       /\ CanAccept(req)
       /\ wire' = wire \ {req}
       /\ inbox' = inbox \cup {Response(req, 200, FALSE, OkResult(req, l))}
       /\ norders' = IF req.op = "order.place" THEN norders + 1 ELSE norders
       /\ resting' = IF req.op = "order.place" THEN resting \cup {norders + 1}
                     ELSE IF req.op = "order.cancel" THEN resting \ {req.arg.orderId}
                     ELSE resting
       /\ UNCHANGED <<connection, alive, nconn, reconnecting, responseHandlers, wsMu, done,
                      panicked, nextId, readers, rc, hm, breaks, closes, dups, calls, ncalls, cur, reg, omMu, om,
                      mvars>>

\* the exchange answers a depth request with a book that has one side only
ExchangeOneSided ==
  /\ panicked = ""
  /\ \E req \in wire : \E side \in {[bids |-> 1, asks |-> 0], [bids |-> 0, asks |-> 1]} :
       /\ req.op = "depth"
       /\ wire' = wire \ {req}
       /\ inbox' = inbox \cup {Response(req, 200, FALSE, [NoResult EXCEPT !.levels = side])}
       /\ UNCHANGED <<connection, alive, nconn, reconnecting, responseHandlers, wsMu, done,
                      panicked, nextId, readers, rc, hm, breaks, closes, dups, fvars, mvars>>

\* the exchange refuses a request and answers {id, status: 400, error}
ExchangeReject ==
  /\ panicked = ""
  /\ \E req \in wire :
       /\ wire' = wire \ {req}
       /\ inbox' = inbox \cup {Response(req, 400, TRUE, NoResult)}
       /\ UNCHANGED <<connection, alive, nconn, reconnecting, responseHandlers, wsMu, done,
                      panicked, nextId, readers, rc, hm, breaks, closes, dups, fvars, mvars>>

\* the exchange refuses a request but answers {id, status: 200, error, result}
ExchangeError200 ==
  /\ panicked = ""
  /\ \E req \in wire :
       /\ wire' = wire \ {req}
       /\ inbox' = inbox \cup {Response(req, 200, TRUE, OkResult(req, 0))}
       /\ UNCHANGED <<connection, alive, nconn, reconnecting, responseHandlers, wsMu, done,
                      panicked, nextId, readers, rc, hm, breaks, closes, dups, fvars, mvars>>

\* a response in flight arrives twice
ExchangeDuplicate ==
  /\ panicked = ""
  /\ \E m \in inbox :
       /\ dups < MaxDup
       /\ dups' = dups + 1
       /\ inbox' = inbox \cup {[m EXCEPT !.copy = dups + 2]}
       /\ UNCHANGED <<connection, alive, nconn, reconnecting, responseHandlers, wsMu, done,
                      panicked, nextId, readers, rc, hm, wire, breaks, closes,
                      fvars, mvars>>

\* the network drops a connection: reads and writes on it fail from now on
ConnBreak ==
  /\ panicked = ""
  /\ \E g \in alive :
       /\ breaks < MaxBreaks
       /\ breaks' = breaks + 1
       /\ alive' = alive \ {g}
       /\ UNCHANGED <<connection, nconn, reconnecting, responseHandlers, wsMu, done,
                      panicked, nextId, readers, rc, hm, wire, inbox, closes, dups,
                      fvars, mvars>>

(* ---- internal/websocket: Client.Connect and Client.Close, called by the owner ---- *)
\* the dial succeeds: c.connection = connection; go c.readMessages()
\* (a failed dial returns an error and changes nothing)
Connect ==
  /\ panicked = ""
  /\ connection = 0
  /\ ~reconnecting
  /\ nconn < MaxConn
  /\ nconn' = nconn + 1
  /\ connection' = nconn + 1
  /\ alive' = alive \cup {nconn + 1}
  /\ readers' = Append(readers, [pc |-> "select", conn |-> 0])
  /\ hist' = [hist EXCEPT !.exhausted = FALSE]
  /\ UNCHANGED <<reconnecting, responseHandlers, wsMu, done, panicked, nextId, rc, hm,
                 wire, inbox, breaks, closes, dups, fvars,
                 active, mmMu, ctxDone, quote, util, activeOrders, mainPc, stopRead, loops, napi>>

\* close(c.done): closing a closed channel panics
CloseDone == IF done THEN panicked' = "close of closed channel" /\ UNCHANGED done
             ELSE done' = TRUE /\ UNCHANGED panicked

\* close(c.done); if c.connection != nil { c.connection.Close() }
Close ==
  /\ panicked = ""
  /\ closes < MaxCloses
  /\ closes' = closes + 1
  /\ CloseDone
  /\ alive' = IF panicked' = "" THEN alive \ {connection} ELSE alive
  /\ UNCHANGED <<connection, nconn, reconnecting, responseHandlers, wsMu, nextId,
                 readers, rc, hm, wire, inbox, breaks, dups, fvars, mvars>>

(* ---- the callers of the facade in the transport specification ---- *)
\* a caller enters GetOrderbook, PlaceOrder, CancelOrder, GetOrderStatus or
\* GetAccountBalance; GetOrderStatus returns the tracked order without a request
ClientCall(c, ops) ==
  /\ panicked = ""
  /\ \E op \in ops :
       LET arg == IF op \in {"order.cancel", "order.status"}
                  THEN [orderId |-> 1, side |-> ""]
                  ELSE IF op = "order.place" THEN [orderId |-> 0, side |-> "BUY"]
                  ELSE NoArg
       IN
       /\ c \in Clients
       /\ ncalls < MaxCalls
       /\ IF op = "order.status" /\ HasOrder(reg, arg.orderId)
          THEN /\ cur[c] = 0
               /\ calls' = Put(calls, ncalls + 1,
                               [NewCall(c, op, arg) EXCEPT !.st = "ret", !.out = "result",
                                                           !.val = GetOrder(reg, arg.orderId)])
               /\ ncalls' = ncalls + 1
               /\ cur' = [cur EXCEPT ![c] = ncalls + 1]
          ELSE BeginCall(c, op, arg)
       /\ UNCHANGED <<tvars, reg, omMu, om, resting, norders, mvars>>

\* the facade call returns to the caller
ClientReturn(c) ==
  /\ panicked = ""
  /\ c \in Clients
  /\ Returned(c)
  /\ cur' = [cur EXCEPT ![c] = 0]
  /\ calls' = Leave(c)
  /\ UNCHANGED <<tvars, ncalls, reg, omMu, om, resting, norders, mvars>>

(* ---- the state after construction ---- *)
Init ==
  /\ connection = 0 /\ alive = {} /\ nconn = 0
  /\ reconnecting = FALSE
  /\ responseHandlers = EmptyMap
  /\ wsMu = 0
  /\ done = FALSE
  /\ panicked = ""
  /\ nextId = 0
  /\ readers = <<>> /\ rc = <<>> /\ hm = {}
  /\ wire = {} /\ inbox = {}
  /\ breaks = 0 /\ closes = 0 /\ dups = 0
  /\ calls = EmptyMap /\ ncalls = 0
  /\ cur = [c \in Callers |-> 0]
  /\ reg = NewManager
  /\ omMu = FreeMu /\ om = NoOmCall
  /\ resting = {} /\ norders = 0
  /\ active = FALSE
  /\ mmMu = ""
  /\ ctxDone = FALSE
  /\ quote = NoQuote
  /\ util = NoUtil
  /\ activeOrders = EmptyMap
  /\ mainPc = "idle"
  /\ stopRead = EmptyMap
  /\ loops = <<>>
  /\ napi = 0
  /\ hist = NoHistory

(* ---- the transport and the facade under concurrent callers ---- *)
\* the operations the concurrent callers use
TOps == {"account.status"}

NextT ==
  \/ \E k \in DOMAIN calls : SR_Check(k)
  \/ \E k \in DOMAIN calls : SR_Register(k)
  \/ \E k \in DOMAIN calls : SR_Lock(k)
  \/ \E k \in DOMAIN calls : SR_WriteDone(k)
  \/ \E k \in DOMAIN calls : FacadeWait(k)
  \/ \E r \in 1 .. Len(readers) : R_Select(r)
  \/ \E r \in 1 .. Len(readers) : R_Read(r)
  \/ \E t \in hm : H_Lookup(t)
  \/ \E t \in hm : H_Invoke(t)
  \/ \E t \in hm : H_Delete(t)
  \/ ExchangeAccept
  \/ ExchangeReject
  \/ Connect
  \/ \E c \in Clients : ClientCall(c, TOps)

SpecT == Init /\ [][NextT]_vars

(* ---- the same with responses that arrive twice ---- *)
DOps == {"order.place", "order.cancel"}

NextD ==
  \/ \E k \in DOMAIN calls : SR_Check(k)
  \/ \E k \in DOMAIN calls : SR_Register(k)
  \/ \E k \in DOMAIN calls : SR_Lock(k)
  \/ \E k \in DOMAIN calls : SR_WriteDone(k)
  \/ \E k \in DOMAIN calls : FacadeWait(k)
  \/ \E r \in 1 .. Len(readers) : R_Select(r)
  \/ \E r \in 1 .. Len(readers) : R_Read(r)
  \/ \E t \in hm : H_Lookup(t)
  \/ \E t \in hm : H_Invoke(t)
  \/ \E t \in hm : H_Delete(t)
  \/ ExchangeAccept
  \/ ExchangeReject
  \/ ExchangeDuplicate
  \/ Connect
  \/ \E c \in Clients : ClientCall(c, DOps)

SpecD == Init /\ [][NextD]_vars

(* ---- one caller making facade calls one after the other ---- *)
NextF ==
  \/ \E k \in DOMAIN calls : SR_Check(k)
  \/ \E k \in DOMAIN calls : SR_Register(k)
  \/ \E k \in DOMAIN calls : SR_Lock(k)
  \/ \E k \in DOMAIN calls : SR_WriteDone(k)
  \/ \E k \in DOMAIN calls : FacadeWait(k)
  \/ \E r \in 1 .. Len(readers) : R_Select(r)
  \/ \E r \in 1 .. Len(readers) : R_Read(r)
  \/ \E t \in hm : H_Lookup(t)
  \/ \E t \in hm : H_Invoke(t)
  \/ \E t \in hm : H_Delete(t)
  \/ ExchangeAccept
  \/ ExchangeReject
  \/ Connect
  \/ ClientCall(1, FacadeOps)
  \/ ClientReturn(1)

SpecF == Init /\ [][NextF]_vars

\* the select of a facade call returns once an arm is ready, and the timer arm
\* becomes ready after 5 seconds
FairSpecF == SpecF /\ \A k \in 1 .. MaxCalls : WF_vars(k \in DOMAIN calls /\ FacadeWait(k))

(* ---- the same caller with an exchange that also sends errors under status 200 ---- *)
NextE ==
  \/ \E k \in DOMAIN calls : SR_Check(k)
  \/ \E k \in DOMAIN calls : SR_Register(k)
  \/ \E k \in DOMAIN calls : SR_Lock(k)
  \/ \E k \in DOMAIN calls : SR_WriteDone(k)
  \/ \E k \in DOMAIN calls : FacadeWait(k)
  \/ \E r \in 1 .. Len(readers) : R_Select(r)
  \/ \E r \in 1 .. Len(readers) : R_Read(r)
  \/ \E t \in hm : H_Lookup(t)
  \/ \E t \in hm : H_Invoke(t)
  \/ \E t \in hm : H_Delete(t)
  \/ ExchangeAccept
  \/ ExchangeReject
  \/ ExchangeError200
  \/ Connect
  \/ ClientCall(1, FacadeOps)
  \/ ClientReturn(1)

SpecE == Init /\ [][NextE]_vars

(* ---- BinanceClient.GetOrderStatus over a connected client ---- *)
\* the order ids GetOrderStatus is called with: the sentinel, an order of the
\* exchange, an order the exchange does not know
InvalidOrderId == 0 - 1
StatusIds == {InvalidOrderId, 1, 2}

\* a faulty GetOrderStatus: the order manager is not consulted
NeverCached(m, orderId) == FALSE

\* c.orderManager.GetOrder(orderID) returns no error
Cached(m, orderId) == HasOrder(m, orderId)

\* GetOrderStatus up to its first return or to SendRequest
GetOrderStatus(c, orderId) ==
  /\ panicked = ""
  /\ c \in Clients
  /\ ncalls < MaxCalls
  /\ cur[c] = 0
  /\ LET call == NewCall(c, "order.status", [orderId |-> orderId, side |-> ""]) IN
     calls' = Put(calls, ncalls + 1,
                  IF orderId = InvalidOrderId
                  THEN [call EXCEPT !.st = "ret", !.out = "invalid"]
                  ELSE IF Cached(reg, orderId)
                       THEN [call EXCEPT !.st = "ret", !.out = "result",
                                         !.val = GetOrder(reg, orderId)]
                       ELSE call)
  /\ ncalls' = ncalls + 1
  /\ cur' = [cur EXCEPT ![c] = ncalls + 1]
  /\ UNCHANGED <<tvars, reg, omMu, om, resting, norders, mvars>>

NextS ==
  \/ \E k \in DOMAIN calls : SR_Check(k)
  \/ \E k \in DOMAIN calls : SR_Register(k)
  \/ \E k \in DOMAIN calls : SR_Lock(k)
  \/ \E k \in DOMAIN calls : SR_WriteDone(k)
  \/ \E k \in DOMAIN calls : FacadeWait(k)
  \/ \E r \in 1 .. Len(readers) : R_Select(r)
  \/ \E r \in 1 .. Len(readers) : R_Read(r)
  \/ \E t \in hm : H_Lookup(t)
  \/ \E t \in hm : H_Invoke(t)
  \/ \E t \in hm : H_Delete(t)
  \/ ExchangeAccept
  \/ ExchangeReject
  \/ \E orderId \in StatusIds : GetOrderStatus(1, orderId)
  \/ ClientReturn(1)

\* a connected client; order 1 was placed at the exchange, where it rests or has
\* gone since; the order manager tracks it as NEW or not at all
InitS ==
  /\ connection = 1 /\ alive = {1} /\ nconn = 1
  /\ reconnecting = FALSE
  /\ responseHandlers = EmptyMap
  /\ wsMu = 0
  /\ done = FALSE
  /\ panicked = ""
  /\ nextId = 0
  /\ readers = <<[pc |-> "select", conn |-> 0]>> /\ rc = <<>> /\ hm = {}
  /\ wire = {} /\ inbox = {}
  /\ breaks = 0 /\ closes = 0 /\ dups = 0
  /\ calls = EmptyMap /\ ncalls = 0
  /\ cur = [c \in Callers |-> 0]
  /\ reg \in {NewManager, TrackOrder(NewManager, ExOrder(1, "NEW"))}
  /\ omMu = FreeMu /\ om = NoOmCall
  /\ norders = 1 /\ resting \in {{}, {1}}
  /\ active = FALSE
  /\ mmMu = ""
  /\ ctxDone = FALSE
  /\ quote = NoQuote
  /\ util = NoUtil
  /\ activeOrders = EmptyMap
  /\ mainPc = "idle"
  /\ stopRead = EmptyMap
  /\ loops = <<>>
  /\ napi = 0
  /\ hist = NoHistory

SpecS == InitS /\ [][NextS]_vars

(* ---- the life of the connection: Connect, Close, failures, reconnection ---- *)
COps == {"depth"}

NextC ==
  \/ \E k \in DOMAIN calls : SR_Check(k)
  \/ \E k \in DOMAIN calls : SR_Register(k)
  \/ \E k \in DOMAIN calls : SR_Lock(k)
  \/ \E k \in DOMAIN calls : SR_WriteDone(k)
  \/ \E k \in DOMAIN calls : SR_Reconnect(k)
  \/ \E k \in DOMAIN calls : FacadeWait(k)
  \/ \E r \in 1 .. Len(readers) : R_Select(r)
  \/ \E r \in 1 .. Len(readers) : R_Read(r)
  \/ \E r \in 1 .. Len(readers) : R_ReadErr(r)
  \/ \E r \in 1 .. Len(readers) : R_Reconnect(r)
  \/ \E t \in hm : H_Lookup(t)
  \/ \E t \in hm : H_Invoke(t)
  \/ \E t \in hm : H_Delete(t)
  \/ \E i \in 1 .. Len(rc) : RC_Dial(i)
  \/ \E i \in 1 .. Len(rc) : RC_Wake(i)
  \/ \E i \in 1 .. Len(rc) : RC_GiveUp(i)
  \/ ExchangeAccept
  \/ ExchangeReject
  \/ ConnBreak
  \/ Connect
  \/ Close
  \/ ClientCall(1, COps)
  \/ ClientReturn(1)

SpecC == Init /\ [][NextC]_vars

(* ---- internal/ordermanager called directly, as its tests do ---- *)
\* models.OrderStatus
Statuses == {"NEW", "PARTIALLY_FILLED", "FILLED", "CANCELED", "REJECTED", "EXPIRED"}
ActiveStatuses == {"NEW", "PARTIALLY_FILLED"}
TerminalStatuses == Statuses \ ActiveStatuses

\* the orders the caller passes in; client order id 0 is the empty string
OrderIds == 1 .. MaxOrderId
ClientIds == 1 .. MaxClientId
InputStatuses == {"NEW", "PARTIALLY_FILLED", "FILLED"}
Orders == [orderId : OrderIds, clientOrderId : {0} \cup ClientIds, status : InputStatuses,
           levels : {NoLevels}]

\* the pointers GetOrder and GetClientOrders return (&state.Order); 0: not found
OrderPtr(m, orderId) == IF orderId \in DOMAIN m.orders THEN m.orders[orderId] ELSE 0
ClientOrderPtr(m, clientOrderId) ==
  IF clientOrderId \in DOMAIN m.clientOrders THEN m.clientOrders[clientOrderId] ELSE 0

\* Manager.GetOrdersByStatuses: for every key of m.orders whose state has one of
\* the statuses, a copy of its order (a bag: Go's map order is not specified)
GetOrdersByStatuses(m, statuses) ==
  LET keys == {k \in DOMAIN m.orders : m.heap[m.orders[k]].order.status \in statuses}
      found == {m.heap[m.orders[k]].order : k \in keys}
  IN [o \in found |-> Cardinality({k \in keys : m.heap[m.orders[k]].order = o})]

\* Manager.GetOrdersByStatus
GetOrdersByStatus(m, status) ==
  LET keys == {k \in DOMAIN m.orders : m.heap[m.orders[k]].order.status = status}
      found == {m.heap[m.orders[k]].order : k \in keys}
  IN [o \in found |-> Cardinality({k \in keys : m.heap[m.orders[k]].order = o})]

\* Manager.RemoveOrder after its GetOrder found the order: both deletes
RemoveOrder(m, orderId) ==
  LET order == GetOrder(m, orderId) IN
  Collected(Del(m.orders, orderId),
            IF order.clientOrderId # 0 THEN Del(m.clientOrders, order.clientOrderId)
            ELSE m.clientOrders,
            m.heap)

\* the caller is between two calls and may make another one
OmReady == panicked = "" /\ om.pc = "idle" /\ om.n < MaxOps

OmCall(op, id) == [NoOmCall EXCEPT !.op = op, !.id = id, !.n = om.n + 1]

\* Lock ... Unlock around the whole body
O_TrackOrder(order) ==
  /\ OmReady
  /\ omMu = FreeMu
  /\ reg' = TrackOrder(reg, order)
  /\ om' = [OmCall("TrackOrder", order.orderId) EXCEPT !.arg = order]
  /\ UNCHANGED <<tvars, calls, ncalls, cur, omMu, resting, norders, mvars>>

O_UpdateOrder(order) ==
  /\ OmReady
  /\ omMu = FreeMu
  /\ reg' = UpdateOrder(reg, order)
  /\ om' = [OmCall("UpdateOrder", order.orderId) EXCEPT
              !.arg = order,
              !.err = IF UpdateTarget(reg, order) = 0 THEN "order not found" ELSE ""]
  /\ UNCHANGED <<tvars, calls, ncalls, cur, omMu, resting, norders, mvars>>

\* RLock ... RUnlock around the whole body
O_GetOrder(orderId) ==
  /\ OmReady
  /\ ~omMu.w
  /\ om' = [OmCall("GetOrder", orderId) EXCEPT
              !.ptr = OrderPtr(reg, orderId),
              !.err = IF HasOrder(reg, orderId) THEN "" ELSE "order not found"]
  /\ UNCHANGED <<tvars, calls, ncalls, cur, reg, omMu, resting, norders, mvars>>

O_GetClientOrders(clientOrderId) ==
  /\ OmReady
  /\ ~omMu.w
  /\ om' = [OmCall("GetClientOrders", clientOrderId) EXCEPT
              !.ptr = ClientOrderPtr(reg, clientOrderId),
              !.err = IF ClientOrderPtr(reg, clientOrderId) # 0 THEN ""
                      ELSE "order not found"]
  /\ UNCHANGED <<tvars, calls, ncalls, cur, reg, omMu, resting, norders, mvars>>

O_GetOrdersByStatus(status) ==
  /\ OmReady
  /\ ~omMu.w
  /\ om' = [OmCall("GetOrdersByStatus", 0) EXCEPT !.list = GetOrdersByStatus(reg, status)]
  /\ UNCHANGED <<tvars, calls, ncalls, cur, reg, omMu, resting, norders, mvars>>

\* GetActiveOrders: RLock, then the call of GetOrdersByStatuses
O_GetActiveOrders ==
  /\ OmReady
  /\ ~omMu.w
  /\ omMu' = [omMu EXCEPT !.r = @ + 1]
  /\ om' = [OmCall("GetActiveOrders", 0) EXCEPT !.pc = "statuses"]
  /\ UNCHANGED <<tvars, calls, ncalls, cur, reg, resting, norders, mvars>>

\* GetOrdersByStatuses inside GetActiveOrders: its own RLock, the scan, both RUnlock
O_GetOrdersByStatuses ==
  /\ panicked = ""
  /\ om.pc = "statuses"
  /\ IF omMu.w
     THEN om' = [om EXCEPT !.pc = "blocked"] /\ UNCHANGED omMu
     ELSE /\ om' = [om EXCEPT !.pc = "idle", !.list = GetOrdersByStatuses(reg, ActiveStatuses)]
          /\ omMu' = [omMu EXCEPT !.r = @ - 1]
  /\ UNCHANGED <<tvars, calls, ncalls, cur, reg, resting, norders, mvars>>

\* RemoveOrder: Lock, then the call of GetOrder
O_RemoveOrder(orderId) ==
  /\ OmReady
  /\ omMu = FreeMu
  /\ omMu' = [omMu EXCEPT !.w = TRUE]
  /\ om' = [OmCall("RemoveOrder", orderId) EXCEPT !.pc = "get"]
  /\ UNCHANGED <<tvars, calls, ncalls, cur, reg, resting, norders, mvars>>

\* GetOrder inside RemoveOrder: RLock waits while the lock is held for writing,
\* here by the calling goroutine itself; past it the deletes, the deferred Unlock
O_RemoveGetOrder ==
  /\ panicked = ""
  /\ om.pc = "get"
  /\ IF omMu.w
     THEN om' = [om EXCEPT !.pc = "blocked"] /\ UNCHANGED <<reg, omMu>>
     ELSE /\ om' = [om EXCEPT !.pc = "idle",
                              !.err = IF HasOrder(reg, om.id) THEN "" ELSE "order not found"]
          /\ reg' = IF HasOrder(reg, om.id) THEN RemoveOrder(reg, om.id) ELSE reg
          /\ omMu' = FreeMu
  /\ UNCHANGED <<tvars, calls, ncalls, cur, resting, norders, mvars>>

NextO ==
  \/ \E order \in Orders : O_TrackOrder(order)
  \/ \E order \in Orders : O_UpdateOrder(order)
  \/ \E orderId \in OrderIds : O_GetOrder(orderId)
  \/ \E clientOrderId \in {0} \cup ClientIds : O_GetClientOrders(clientOrderId)
  \/ \E status \in Statuses : O_GetOrdersByStatus(status)
  \/ O_GetActiveOrders
  \/ O_GetOrdersByStatuses
  \/ \E orderId \in OrderIds : O_RemoveOrder(orderId)
  \/ O_RemoveGetOrder

SpecO == Init /\ [][NextO]_vars

(* ---- failures and reconnection: one caller, the reader, the exchange silent ---- *)
NextR ==
  \/ \E k \in DOMAIN calls : SR_Check(k)
  \/ \E k \in DOMAIN calls : SR_Register(k)
  \/ \E k \in DOMAIN calls : SR_Lock(k)
  \/ \E k \in DOMAIN calls : SR_WriteDone(k)
  \/ \E k \in DOMAIN calls : SR_Reconnect(k)
  \/ \E k \in DOMAIN calls : FacadeWait(k)
  \/ \E r \in 1 .. Len(readers) : R_Select(r)
  \/ \E r \in 1 .. Len(readers) : R_ReadErr(r)
  \/ \E r \in 1 .. Len(readers) : R_Reconnect(r)
  \/ \E i \in 1 .. Len(rc) : RC_Dial(i)
  \/ \E i \in 1 .. Len(rc) : RC_Wake(i)
  \/ \E i \in 1 .. Len(rc) : RC_GiveUp(i)
  \/ ConnBreak
  \/ Connect
  \/ ClientCall(1, TOps)
  \/ ClientReturn(1)

SpecR == Init /\ [][NextR]_vars

\* the statements of SendRequest that call k can execute
SendRequestStep(k) ==
  SR_Check(k) \/ SR_Register(k) \/ SR_Lock(k) \/ SR_WriteDone(k) \/ SR_Reconnect(k)

\* every goroutine that can run does run: the callers inside SendRequest and the
\* reconnection goroutine
FairSpecR ==
  /\ SpecR
  /\ \A k \in 1 .. MaxCalls : WF_vars(k \in DOMAIN calls /\ SendRequestStep(k))
  /\ WF_vars(\E i \in 1 .. Len(rc) : RC_Dial(i) \/ RC_Wake(i) \/ RC_GiveUp(i))

(* ---- internal/trader: MarketMaker.Start and MarketMaker.Stop, called by the owner ---- *)
\* a facade call made by the market maker
MMCall(c, op, arg) == ncalls < MaxMMCalls /\ BeginCall(c, op, arg)

NewLoop == [pc |-> "update", orderbook |-> NoLevels, read |-> EmptyMap, side |-> "", oid |-> 0,
            ticks |-> 0, cancelFailed |-> FALSE]

\* the owner calls Start()
M_CallStart ==
  /\ panicked = ""
  /\ mainPc = "idle"
  /\ napi < MaxApi
  /\ napi' = napi + 1
  /\ mainPc' = "start"
  /\ UNCHANGED <<tvars, fvars, active, mmMu, ctxDone, quote, util, activeOrders, stopRead, loops, hist>>

\* a faulty Start: no test of m.active
StartAlways == TRUE

\* Start goes on to launch the loop (the test of m.active)
StartLaunches == ~active

\* Lock; if m.active { Unlock; return }; m.active = true; Unlock; go m.tradingLoop()
M_Start ==
  /\ panicked = ""
  /\ mainPc = "start"
  /\ mmMu = ""
  /\ mainPc' = "idle"
  /\ IF StartLaunches
     THEN /\ Len(loops) < MaxLoops
          /\ active' = TRUE
          /\ loops' = Append(loops, NewLoop)
          /\ UNCHANGED hist
     ELSE /\ hist' = [hist EXCEPT !.startNoops = TRUE]
          /\ UNCHANGED <<active, loops>>
  /\ UNCHANGED <<tvars, fvars, mmMu, ctxDone, quote, util, activeOrders, stopRead, napi>>

\* the owner calls Stop()
M_CallStop ==
  /\ panicked = ""
  /\ mainPc = "idle"
  /\ napi < MaxApi
  /\ napi' = napi + 1
  /\ mainPc' = "stop"
  /\ UNCHANGED <<tvars, fvars, active, mmMu, ctxDone, quote, util, activeOrders, stopRead, loops, hist>>

\* Lock; if !m.active { Unlock; return }; m.active = false; m.cancel();
\* copy m.activeOrders; m.activeOrders = make(...); Unlock
M_StopDrain ==
  /\ panicked = ""
  /\ mainPc = "stop"
  /\ mmMu = ""
  /\ IF ~active
     THEN /\ mainPc' = "idle"
          /\ hist' = [hist EXCEPT !.stopNoops = TRUE]
          /\ UNCHANGED <<active, ctxDone, quote, util, stopRead, activeOrders>>
     ELSE /\ active' = FALSE
          /\ ctxDone' = TRUE
          /\ UNCHANGED <<quote, util>>
          /\ stopRead' = activeOrders
          /\ activeOrders' = EmptyMap
          /\ hist' = [hist EXCEPT !.drained = @ \cup DOMAIN activeOrders]
          /\ mainPc' = "stop_cancel"
  /\ UNCHANGED <<tvars, fvars, mmMu, loops, napi>>

\* for orderID := range activeOrdersRead { m.client.CancelOrder(orderID) }
M_StopCancel ==
  /\ panicked = ""
  /\ mainPc = "stop_cancel"
  /\ \E o \in DOMAIN stopRead :
       /\ MMCall(MainCaller, "order.cancel", [orderId |-> o, side |-> ""])
       /\ hist' = [hist EXCEPT !.cancelIssued = @ \cup {o}, !.stopCancels = @ \cup {o}]
  /\ mainPc' = "stop_wait"
  /\ UNCHANGED <<tvars, reg, omMu, om, resting, norders, active, mmMu, ctxDone, quote, util, activeOrders,
                 stopRead, loops, napi>>

\* CancelOrder returns; an error is logged and the range goes on
M_StopCancelRet ==
  /\ panicked = ""
  /\ mainPc = "stop_wait"
  /\ Returned(MainCaller)
  /\ stopRead' = Del(stopRead, calls[cur[MainCaller]].arg.orderId)
  /\ cur' = [cur EXCEPT ![MainCaller] = 0]
  /\ calls' = Leave(MainCaller)
  /\ mainPc' = "stop_cancel"
  /\ UNCHANGED <<tvars, ncalls, reg, omMu, om, resting, norders, active, mmMu, ctxDone, quote, util, activeOrders,
                 loops, napi, hist>>

\* the last statement of Stop: m.mu.Lock(), and Stop returns holding the lock
M_StopLock ==
  /\ panicked = ""
  /\ mainPc = "stop_cancel"
  /\ DOMAIN stopRead = {}
  /\ mmMu = ""
  /\ mmMu' = "Stop"
  /\ mainPc' = "idle"
  /\ UNCHANGED <<tvars, fvars, active, ctxDone, quote, util, activeOrders, stopRead, loops, napi, hist>>

(* ---- internal/trader: MarketMaker.tradingLoop, goroutine l ---- *)
\* a faulty tradingLoop: an error of updateMarketState ends it
RefreshFailedReturn == "exit"

\* where tradingLoop is after updateMarketState returned an error: the error is
\* logged and the loop is at its select again
RefreshFailed == "select"

\* updateMarketState: m.client.GetOrderbook(10)
L_Update(l) ==
  /\ panicked = ""
  /\ loops[l].pc = "update"
  /\ MMCall(LoopCaller(l), "depth", NoArg)
  /\ loops' = [loops EXCEPT ![l].pc = "book", ![l].cancelFailed = FALSE]
  /\ UNCHANGED <<tvars, reg, omMu, om, resting, norders, active, mmMu, ctxDone, quote, util, activeOrders,
                 mainPc, stopRead, napi, hist>>

\* a faulty test: only a book with no level at all counts as empty
EmptyOnBothSides(orderbook) == orderbook.asks = 0 /\ orderbook.bids = 0

\* len(orderbook.Asks) == 0 || len(orderbook.Bids) == 0
EmptyOrderbook(orderbook) == orderbook.asks = 0 \/ orderbook.bids = 0

\* GetOrderbook returns: an error or an empty side ends the refresh
L_Book(l) ==
  /\ panicked = ""
  /\ loops[l].pc = "book"
  /\ Returned(LoopCaller(l))
  /\ cur' = [cur EXCEPT ![LoopCaller(l)] = 0]
  /\ calls' = Leave(LoopCaller(l))
  /\ LET c == calls[cur[LoopCaller(l)]] IN
     loops' = [loops EXCEPT ![l].pc = IF c.out = "result" /\ ~EmptyOrderbook(c.val.levels)
                                      THEN "copy" ELSE RefreshFailed,
                            ![l].orderbook = IF c.out = "result" THEN c.val.levels ELSE NoLevels]
  /\ UNCHANGED <<tvars, ncalls, reg, omMu, om, resting, norders, active, mmMu, ctxDone, quote, util, activeOrders,
                 mainPc, stopRead, napi, hist>>

\* refreshOrders: RLock; copy m.activeOrders; RUnlock
L_Copy(l) ==
  /\ panicked = ""
  /\ loops[l].pc = "copy"
  /\ mmMu = ""
  /\ loops' = [loops EXCEPT ![l].pc = "cancel", ![l].read = activeOrders]
  /\ UNCHANGED <<tvars, fvars, active, mmMu, ctxDone, quote, util, activeOrders, mainPc, stopRead,
                 napi, hist>>

\* for orderID := range activeOrdersRead { m.client.CancelOrder(orderID) ... }
L_Cancel(l) ==
  /\ panicked = ""
  /\ loops[l].pc = "cancel"
  /\ \E o \in DOMAIN loops[l].read :
       /\ MMCall(LoopCaller(l), "order.cancel", [orderId |-> o, side |-> ""])
       /\ loops' = [loops EXCEPT ![l].pc = "cancelled", ![l].oid = o]
       /\ hist' = [hist EXCEPT !.cancelIssued = @ \cup {o}]
  /\ UNCHANGED <<tvars, reg, omMu, om, resting, norders, active, mmMu, ctxDone, quote, util, activeOrders,
                 mainPc, stopRead, napi>>

\* a faulty refreshOrders: the entry of a cancel that failed stays in the pool
PoolAfterCancelKept(pool, orderID, c) == IF c.out = "result" THEN Del(pool, orderID) ELSE pool

\* delete(m.activeOrders, orderID), whatever CancelOrder (call c) returned
PoolAfterCancel(pool, orderID, c) == Del(pool, orderID)

\* CancelOrder returns (an error is logged); Lock; delete(m.activeOrders, orderID); Unlock
L_Delete(l) ==
  /\ panicked = ""
  /\ loops[l].pc = "cancelled"
  /\ Returned(LoopCaller(l))
  /\ mmMu = ""
  /\ cur' = [cur EXCEPT ![LoopCaller(l)] = 0]
  /\ calls' = Leave(LoopCaller(l))
  /\ activeOrders' = PoolAfterCancel(activeOrders, loops[l].oid, calls[cur[LoopCaller(l)]])
  /\ loops' = [loops EXCEPT ![l].pc = "cancel", ![l].read = Del(@, loops[l].oid), ![l].oid = 0,
                            ![l].cancelFailed = @ \/ calls[cur[LoopCaller(l)]].out # "result"]
  /\ UNCHANGED <<tvars, ncalls, reg, omMu, om, resting, norders, active, mmMu, ctxDone, quote, util,
                 mainPc, stopRead, napi, hist>>

\* every entry is cancelled: placeNewOrder("BUY", ...)
L_Cancelled(l) ==
  /\ panicked = ""
  /\ loops[l].pc = "cancel"
  /\ DOMAIN loops[l].read = {}
  /\ loops' = [loops EXCEPT ![l].pc = "check", ![l].side = "BUY"]
  /\ UNCHANGED <<tvars, fvars, active, mmMu, ctxDone, quote, util, activeOrders, mainPc, stopRead,
                 napi, hist>>

\* placeNewOrder: if !m.IsActive() { return the error }, which ends the refresh
L_Check(l) ==
  /\ panicked = ""
  /\ loops[l].pc = "check"
  /\ mmMu = ""
  /\ loops' = [loops EXCEPT ![l].pc = IF active THEN "place" ELSE RefreshFailed]
  /\ UNCHANGED <<tvars, fvars, active, mmMu, ctxDone, quote, util, activeOrders, mainPc, stopRead,
                 napi, hist>>

\* placeNewOrder: m.client.PlaceOrder(side, "LIMIT", price, qty)
L_Place(l) ==
  /\ panicked = ""
  /\ loops[l].pc = "place"
  /\ MMCall(LoopCaller(l), "order.place", [orderId |-> 0, side |-> loops[l].side])
  /\ loops' = [loops EXCEPT ![l].pc = "placed"]
  /\ UNCHANGED <<tvars, reg, omMu, om, resting, norders, active, mmMu, ctxDone, quote, util, activeOrders,
                 mainPc, stopRead, napi, hist>>

\* the order id placeNewOrder puts into the pool after PlaceOrder returned c
PooledOrder(c) == IF c.out = "result" THEN c.val.orderId ELSE 0

\* a faulty refreshOrders: the error of the BUY placement is only logged
PlaceFailedLogged(side) == IF side = "BUY" THEN "add" ELSE RefreshFailed

\* refreshOrders returns the error of placeNewOrder, updateMarketState returns it
PlaceFailed(side) == RefreshFailed

\* PlaceOrder returns: an error ends the refresh
L_Placed(l) ==
  /\ panicked = ""
  /\ loops[l].pc = "placed"
  /\ Returned(LoopCaller(l))
  /\ cur' = [cur EXCEPT ![LoopCaller(l)] = 0]
  /\ calls' = Leave(LoopCaller(l))
  /\ LET o == PooledOrder(calls[cur[LoopCaller(l)]]) IN
     /\ loops' = [loops EXCEPT ![l].pc = IF o # 0 THEN "add" ELSE PlaceFailed(loops[l].side),
                               ![l].oid = o]
     /\ hist' = [hist EXCEPT !.placed = IF o # 0 THEN @ \cup {o} ELSE @]
  /\ UNCHANGED <<tvars, ncalls, reg, omMu, om, resting, norders, active, mmMu, ctxDone, quote, util, activeOrders,
                 mainPc, stopRead, napi>>

\* Lock; m.activeOrders[order.OrderID] = side; Unlock; after BUY: Sleep, then SELL
L_Add(l) ==
  /\ panicked = ""
  /\ loops[l].pc = "add"
  /\ mmMu = ""
  /\ activeOrders' = Put(activeOrders, loops[l].oid, loops[l].side)
  /\ loops' = [loops EXCEPT ![l].pc = IF loops[l].side = "BUY" THEN "check" ELSE "select",
                            ![l].side = IF loops[l].side = "BUY" THEN "SELL" ELSE "",
                            ![l].oid = 0]
  /\ UNCHANGED <<tvars, fvars, active, mmMu, ctxDone, quote, util, mainPc, stopRead, napi, hist>>

\* select: case <-ticker.C
L_Tick(l) ==
  /\ panicked = ""
  /\ loops[l].pc = "select"
  /\ loops[l].ticks < MaxTicks
  /\ loops' = [loops EXCEPT ![l].pc = "tick", ![l].ticks = @ + 1]
  /\ UNCHANGED <<tvars, fvars, active, mmMu, ctxDone, quote, util, activeOrders, mainPc, stopRead,
                 napi, hist>>

\* if !m.IsActive() { return }; else updateMarketState
L_TickCheck(l) ==
  /\ panicked = ""
  /\ loops[l].pc = "tick"
  /\ mmMu = ""
  /\ loops' = [loops EXCEPT ![l].pc = IF active THEN "update" ELSE "exit"]
  /\ UNCHANGED <<tvars, fvars, active, mmMu, ctxDone, quote, util, activeOrders, mainPc, stopRead,
                 napi, hist>>

\* select: case <-m.ctx.Done(): return
L_Done(l) ==
  /\ panicked = ""
  /\ loops[l].pc = "select"
  /\ ctxDone
  /\ loops' = [loops EXCEPT ![l].pc = "exit"]
  /\ UNCHANGED <<tvars, fvars, active, mmMu, ctxDone, quote, util, activeOrders, mainPc, stopRead,
                 napi, hist>>

(* ---- the market maker over a connected client ---- *)
\* the state after api.New, Connect and trader.New, as in func main
InitM ==
  /\ connection = 1 /\ alive = {1} /\ nconn = 1
  /\ reconnecting = FALSE
  /\ responseHandlers = EmptyMap
  /\ wsMu = 0
  /\ done = FALSE
  /\ panicked = ""
  /\ nextId = 0
  /\ readers = <<[pc |-> "reading", conn |-> 1]>> /\ rc = <<>> /\ hm = {}
  /\ wire = {} /\ inbox = {}
  /\ breaks = 0 /\ closes = 0 /\ dups = 0
  /\ calls = EmptyMap /\ ncalls = 0
  /\ cur = [c \in Callers |-> 0]
  /\ reg = NewManager
  /\ omMu = FreeMu /\ om = NoOmCall
  /\ resting = {} /\ norders = 0
  /\ active = FALSE
  /\ mmMu = ""
  /\ ctxDone = FALSE
  /\ quote = NoQuote
  /\ util = NoUtil
  /\ activeOrders = EmptyMap
  /\ mainPc = "idle"
  /\ stopRead = EmptyMap
  /\ loops = <<>>
  /\ napi = 0
  /\ hist = NoHistory

NextM ==
  \/ M_CallStart
  \/ M_Start
  \/ M_CallStop
  \/ M_StopDrain
  \/ M_StopCancel
  \/ M_StopCancelRet
  \/ M_StopLock
  \/ \E l \in 1 .. Len(loops) : L_Update(l)
  \/ \E l \in 1 .. Len(loops) : L_Book(l)
  \/ \E l \in 1 .. Len(loops) : L_Copy(l)
  \/ \E l \in 1 .. Len(loops) : L_Cancel(l)
  \/ \E l \in 1 .. Len(loops) : L_Delete(l)
  \/ \E l \in 1 .. Len(loops) : L_Cancelled(l)
  \/ \E l \in 1 .. Len(loops) : L_Check(l)
  \/ \E l \in 1 .. Len(loops) : L_Place(l)
  \/ \E l \in 1 .. Len(loops) : L_Placed(l)
  \/ \E l \in 1 .. Len(loops) : L_Add(l)
  \/ \E l \in 1 .. Len(loops) : L_Tick(l)
  \/ \E l \in 1 .. Len(loops) : L_TickCheck(l)
  \/ \E l \in 1 .. Len(loops) : L_Done(l)
  \/ \E k \in DOMAIN calls : SendRequest(k)
  \/ \E k \in DOMAIN calls : FacadeWait(k)
  \/ Deliver
  \/ ExchangeAccept
  \/ ExchangeReject

SpecM == InitM /\ [][NextM]_vars

(* ---- one refresh of a running market maker that holds two quotes ---- *)
NextQ ==
  \/ M_CallStop
  \/ M_StopDrain
  \/ M_StopCancel
  \/ M_StopCancelRet
  \/ M_StopLock
  \/ \E l \in 1 .. Len(loops) : L_Update(l)
  \/ \E l \in 1 .. Len(loops) : L_Book(l)
  \/ \E l \in 1 .. Len(loops) : L_Copy(l)
  \/ \E l \in 1 .. Len(loops) : L_Cancel(l)
  \/ \E l \in 1 .. Len(loops) : L_Delete(l)
  \/ \E l \in 1 .. Len(loops) : L_Cancelled(l)
  \/ \E l \in 1 .. Len(loops) : L_Check(l)
  \/ \E l \in 1 .. Len(loops) : L_Place(l)
  \/ \E l \in 1 .. Len(loops) : L_Placed(l)
  \/ \E l \in 1 .. Len(loops) : L_Add(l)
  \/ \E l \in 1 .. Len(loops) : L_Tick(l)
  \/ \E l \in 1 .. Len(loops) : L_TickCheck(l)
  \/ \E l \in 1 .. Len(loops) : L_Done(l)
  \/ \E k \in DOMAIN calls : SendRequest(k)
  \/ \E k \in DOMAIN calls : FacadeWait(k)
  \/ Deliver
  \/ ExchangeAccept
  \/ ExchangeOneSided
  \/ ExchangeReject

\* the state after Start and a first refresh that placed orders 1 (BUY) and 2
\* (SELL): both rest at the exchange, are tracked and are in the pool, the loop
\* waits for its next tick, and the owner has one call of Stop left
InitQ ==
  /\ connection = 1 /\ alive = {1} /\ nconn = 1
  /\ reconnecting = FALSE
  /\ responseHandlers = EmptyMap
  /\ wsMu = 0
  /\ done = FALSE
  /\ panicked = ""
  /\ nextId = 0
  /\ readers = <<[pc |-> "reading", conn |-> 1]>> /\ rc = <<>> /\ hm = {}
  /\ wire = {} /\ inbox = {}
  /\ breaks = 0 /\ closes = 0 /\ dups = 0
  /\ calls = EmptyMap /\ ncalls = 0
  /\ cur = [c \in Callers |-> 0]
  /\ reg = TrackOrder(TrackOrder(NewManager, ExOrder(1, "NEW")), ExOrder(2, "NEW"))
  /\ omMu = FreeMu /\ om = NoOmCall
  /\ resting = {1, 2} /\ norders = 2
  /\ active = TRUE
  /\ mmMu = ""
  /\ ctxDone = FALSE
  /\ quote = NoQuote
  /\ util = NoUtil
  /\ activeOrders = Put(Put(EmptyMap, 1, "BUY"), 2, "SELL")
  /\ mainPc = "idle"
  /\ stopRead = EmptyMap
  /\ loops = <<[NewLoop EXCEPT !.pc = "select"]>>
  /\ napi = MaxApi - 1
  /\ hist = [NoHistory EXCEPT !.placed = {1, 2}]

SpecQ == InitQ /\ [][NextQ]_vars

\* the statements tradingLoop goroutine l can execute
LoopStep(l) ==
  \/ L_Update(l) \/ L_Book(l) \/ L_Copy(l) \/ L_Cancel(l) \/ L_Delete(l) \/ L_Cancelled(l)
  \/ L_Check(l) \/ L_Place(l) \/ L_Placed(l) \/ L_Add(l) \/ L_TickCheck(l) \/ L_Done(l)

\* the statements of Start and Stop once the owner has called them
OwnerStep == M_Start \/ M_StopDrain \/ M_StopCancel \/ M_StopCancelRet \/ M_StopLock

\* every goroutine that can run does run: the loops, the owner inside Start or
\* Stop, the facade calls (whose timers fire) and the delivery of responses
FairSpecM ==
  /\ SpecM
  /\ \A l \in 1 .. MaxLoops : WF_vars(l <= Len(loops) /\ LoopStep(l))
  /\ WF_vars(OwnerStep)
  /\ \A k \in 1 .. MaxMMCalls : WF_vars(k \in DOMAIN calls /\ (SendRequest(k) \/ FacadeWait(k)))
  /\ WF_vars(Deliver)

(* ---- decimal numbers and strings for the prices ---- *)
\* A float64 of the code is modelled by the decimal number [n, s] = n / 10^s it
\* stands for, in lowest scale; the arithmetic is exact (the rounding error of
\* float64, relative 2^-53, is not modelled).  A string is the sequence of its
\* characters.
RECURSIVE Pow10(_)
Pow10(k) == IF k = 0 THEN 1 ELSE 10 * Pow10(k - 1)

RECURSIVE Norm(_)
Norm(d) == IF d.s > 0 /\ d.n % 10 = 0 THEN Norm([n |-> d.n \div 10, s |-> d.s - 1]) ELSE d

Dec(n, s) == Norm([n |-> n, s |-> s])

\* d in units of 10^-s, for s >= d.s
Scaled(d, s) == d.n * Pow10(s - d.s)

DecScale(a, b) == IF a.s >= b.s THEN a.s ELSE b.s
DecAdd(a, b) == Dec(Scaled(a, DecScale(a, b)) + Scaled(b, DecScale(a, b)), DecScale(a, b))
DecSub(a, b) == Dec(Scaled(a, DecScale(a, b)) - Scaled(b, DecScale(a, b)), DecScale(a, b))
DecMul(a, b) == Dec(a.n * b.n, a.s + b.s)
DecHalf(a) == Dec(a.n * 5, a.s + 1)
DecDiv100(a) == Dec(a.n, a.s + 2)

DigitChars == <<"0", "1", "2", "3", "4", "5", "6", "7", "8", "9">>
IsDigit(c) == \E i \in 1 .. 10 : DigitChars[i] = c
DigitVal(c) == (CHOOSE i \in 1 .. 10 : DigitChars[i] = c) - 1

\* the decimal digits of a natural number, as a string
RECURSIVE DigitsOf(_)
DigitsOf(n) == IF n < 10 THEN <<DigitChars[n + 1]>>
               ELSE Append(DigitsOf(n \div 10), DigitChars[(n % 10) + 1])

\* the number a string of digits stands for
RECURSIVE NatOf(_)
NatOf(str) == IF str = <<>> THEN 0
              ELSE 10 * NatOf(SubSeq(str, 1, Len(str) - 1)) + DigitVal(str[Len(str)])

\* frac written with exactly `places` digits
RECURSIVE Padded(_, _)
Padded(frac, places) == IF places = 0 THEN <<>>
                        ELSE Append(Padded(frac \div 10, places - 1), DigitChars[(frac % 10) + 1])

\* strconv.ParseFloat on a plain decimal string ("0.01", "1", "12.5"); every
\* other string drawn here is not a number at all
ParseFloat(str) ==
  LET dots == {i \in 1 .. Len(str) : str[i] = "."}
      digits == SelectSeq(str, IsDigit)
  IN IF Len(digits) > 0 /\ Cardinality(dots) <= 1 /\ Len(digits) + Cardinality(dots) = Len(str)
     THEN [ok |-> TRUE,
           val |-> Dec(NatOf(digits),
                       IF dots = {} THEN 0 ELSE Len(str) - (CHOOSE i \in dots : TRUE))]
     ELSE [ok |-> FALSE, val |-> Dec(0, 0)]

\* math.Round(num / den) for num >= 0, den > 0: halves go away from zero
Round(num, den) == IF 2 * (num % den) >= den THEN (num \div den) + 1 ELSE num \div den

\* the nearest integer, halves to the even one (how %.Nf rounds an exact half)
RoundHalfEven(num, den) ==
  LET q == num \div den
      r2 == 2 * (num % den)
  IN IF r2 > den \/ (r2 = den /\ q % 2 = 1) THEN q + 1 ELSE q

\* fmt.Sprintf("%.<places>f", d)
SprintfF(places, d) ==
  LET units == IF d.s <= places THEN d.n * Pow10(places - d.s)
               ELSE RoundHalfEven(d.n, Pow10(d.s - places))
      whole == DigitsOf(units \div Pow10(places))
  IN IF places = 0 THEN whole
     ELSE whole \o <<".">> \o Padded(units % Pow10(places), places)

\* len(parts[1]) for parts := strings.Split(fmt.Sprintf("%g", tick), "."), 0 < tick < 1:
\* %g writes ticks below 0.0001 with an exponent ("1e-05", "2.5e-05")
GDecimalPlaces(tick) ==
  LET sig == Len(DigitsOf(tick.n))
      exponent == tick.s - sig + 1      \* tick = d.ddd * 10^-exponent
  IN IF exponent > 4
     THEN IF sig = 1 THEN 0 ELSE (sig - 1) + (IF exponent < 100 THEN 4 ELSE 5)
     ELSE tick.s

\* utils.FormatPrice
FormatPrice(price, tickSize) ==
  LET t == ParseFloat(tickSize) IN
  IF ~t.ok THEN SprintfF(2, price)
  ELSE LET tick == t.val
           nearest == IF tick.s >= price.s
                      THEN Round(price.n * Pow10(tick.s - price.s), tick.n)
                      ELSE Round(price.n, tick.n * Pow10(price.s - tick.s))
       IN SprintfF(IF tick.n < Pow10(tick.s) THEN GDecimalPlaces(tick) ELSE 0,
                   Dec(nearest * tick.n, tick.s))

(* ---- internal/trader: the prices of a refresh (MarketMaker.updateMarketState) ---- *)
\* a faulty reading of the book: the last bid level instead of the first
deepestBidPrice(orderbook) == orderbook.bids[Len(orderbook.bids)]

highestBidPrice(orderbook) == orderbook.bids[1]
lowestAskPrice(orderbook) == orderbook.asks[1]

midPrice(orderbook) == DecHalf(DecAdd(lowestAskPrice(orderbook), highestBidPrice(orderbook)))
spreadAmount(orderbook, spreadPercentage) ==
  DecMul(midPrice(orderbook), DecDiv100(spreadPercentage))

bidPriceStr(orderbook, spreadPercentage, tickSize) ==
  FormatPrice(DecSub(midPrice(orderbook), spreadAmount(orderbook, spreadPercentage)), tickSize)
askPriceStr(orderbook, spreadPercentage, tickSize) ==
  FormatPrice(DecAdd(midPrice(orderbook), spreadAmount(orderbook, spreadPercentage)), tickSize)

\* the inputs: the book GetOrderbook returns (bids falling, asks rising, every
\* bid below every ask), spreadPercentage and tickSize as given to trader.New
BidGrid == <<Dec(9000, 0), Dec(89995, 1), Dec(8990, 0)>>
AskGrid == <<Dec(9100, 0), Dec(91005, 1), Dec(9110, 0)>>

\* the levels i, i+1, ... of a side, at most MaxLevels of them
Side(grid, from, len) == [j \in 1 .. len |-> grid[from + j - 1]]
Sides(grid) == {Side(grid, w[1], w[2]) :
                 w \in {v \in (1 .. Len(grid)) \X (0 .. MaxLevels) : v[1] + v[2] - 1 <= Len(grid)}}
Books == [bids : Sides(BidGrid), asks : Sides(AskGrid)]
Spreads == {Dec(1, 0), Dec(5, 1), Dec(2, 0)}
TickSizes == {<<"0", ".", "0", "1">>, <<"0", ".", "1">>, <<"1">>, <<"a", "b", "c">>}

Quotes == [orderbook : Books, spreadPercentage : Spreads, tickSize : TickSizes,
           pc : {"update"}, bidPrice : {<<>>}, askPrice : {<<>>}, placed : {<<>>}]

\* updateMarketState up to the call of refreshOrders
Q_UpdateMarketState ==
  /\ panicked = ""
  /\ quote.pc = "update"
  /\ IF Len(quote.orderbook.asks) = 0 \/ Len(quote.orderbook.bids) = 0
     THEN quote' = [quote EXCEPT !.pc = "failed"]
     ELSE quote' = [quote EXCEPT
            !.pc = "buy",
            !.askPrice = askPriceStr(quote.orderbook, quote.spreadPercentage, quote.tickSize),
            !.bidPrice = bidPriceStr(quote.orderbook, quote.spreadPercentage, quote.tickSize)]
  /\ UNCHANGED <<tvars, fvars, active, mmMu, ctxDone, util, activeOrders, mainPc, stopRead,
                 loops, napi, hist>>

\* refreshOrders: placeNewOrder("BUY", "LIMIT", bidPrice, m.orderQty)
Q_PlaceBuy ==
  /\ panicked = ""
  /\ quote.pc = "buy"
  /\ quote' = [quote EXCEPT
       !.pc = "sell",
       !.placed = Append(@, [side |-> "BUY", type |-> "LIMIT", price |-> quote.bidPrice])]
  /\ UNCHANGED <<tvars, fvars, active, mmMu, ctxDone, util, activeOrders, mainPc, stopRead,
                 loops, napi, hist>>

\* refreshOrders: placeNewOrder("SELL", "LIMIT", askPrice, m.orderQty)
Q_PlaceSell ==
  /\ panicked = ""
  /\ quote.pc = "sell"
  /\ quote' = [quote EXCEPT
       !.pc = "done",
       !.placed = Append(@, [side |-> "SELL", type |-> "LIMIT", price |-> quote.askPrice])]
  /\ UNCHANGED <<tvars, fvars, active, mmMu, ctxDone, util, activeOrders, mainPc, stopRead,
                 loops, napi, hist>>

NextP ==
  \/ Q_UpdateMarketState
  \/ Q_PlaceBuy
  \/ Q_PlaceSell

\* the state after trader.New, with the book the next GetOrderbook returns
InitP ==
  /\ connection = 0 /\ alive = {} /\ nconn = 0
  /\ reconnecting = FALSE
  /\ responseHandlers = EmptyMap
  /\ wsMu = 0
  /\ done = FALSE
  /\ panicked = ""
  /\ nextId = 0
  /\ readers = <<>> /\ rc = <<>> /\ hm = {}
  /\ wire = {} /\ inbox = {}
  /\ breaks = 0 /\ closes = 0 /\ dups = 0
  /\ calls = EmptyMap /\ ncalls = 0
  /\ cur = [c \in Callers |-> 0]
  /\ reg = NewManager
  /\ omMu = FreeMu /\ om = NoOmCall
  /\ resting = {} /\ norders = 0
  /\ active = FALSE
  /\ mmMu = ""
  /\ ctxDone = FALSE
  /\ quote \in Quotes
  /\ util = NoUtil
  /\ activeOrders = EmptyMap
  /\ mainPc = "idle"
  /\ stopRead = EmptyMap
  /\ loops = <<>>
  /\ napi = 0
  /\ hist = NoHistory

SpecP == InitP /\ [][NextP]_vars

(* ---- internal/utils called directly, as its tests do ---- *)
\* the bytes the parameter names are made of, in ascending order
Alphabet == <<"B", "a", "b">>
ByteOf(c) == CHOOSE i \in 1 .. Len(Alphabet) : Alphabet[i] = c

\* a < b for Go strings: byte by byte, a proper prefix first
RECURSIVE StrLess(_, _)
StrLess(a, b) == IF a = <<>> THEN b # <<>>
                 ELSE IF b = <<>> THEN FALSE
                 ELSE IF a[1] = b[1] THEN StrLess(Tail(a), Tail(b))
                 ELSE ByteOf(a[1]) < ByteOf(b[1])

\* a faulty GenerateSignature: the keys stay in the order the map yielded them
Unsorted(keys) == keys

\* sort.Strings(keys)
RECURSIVE SortStrings(_)
SortStrings(keys) ==
  IF keys = <<>> THEN <<>>
  ELSE LET rest == SortStrings(Tail(keys))
       IN SelectSeq(rest, LAMBDA x : StrLess(x, keys[1])) \o <<keys[1]>>
            \o SelectSeq(rest, LAMBDA x : ~StrLess(x, keys[1]))

\* strings.Join(parts, sep)
RECURSIVE Join(_, _)
Join(parts, sep) == IF parts = <<>> THEN <<>>
                    ELSE IF Len(parts) = 1 THEN parts[1]
                    ELSE parts[1] \o sep \o Join(Tail(parts), sep)

\* utils.GenerateHMAC, kept symbolic: the key and the data the digest is made from
GenerateHMAC(secretKey, data) == [key |-> secretKey, data |-> data]

\* utils.GenerateSignature; iter is the order in which `range params` yields the keys
GenerateSignature(secretKey, params, iter) ==
  LET keys == SortStrings(iter)
      queryParts == [i \in 1 .. Len(keys) |-> keys[i] \o <<"=">> \o params[keys[i]]]
  IN GenerateHMAC(secretKey, Join(queryParts, <<"&">>))

\* the map a caller builds by inserting the pairs ins[1], ins[2], ... (distinct keys)
MakeMap(ins) ==
  [k \in {ins[i][1] : i \in 1 .. Len(ins)} |->
     ins[CHOOSE i \in 1 .. Len(ins) : ins[i][1] = k][2]]

\* the orders in which a map may yield its keys
KeyOrders(params) ==
  {s \in [1 .. Cardinality(DOMAIN params) -> DOMAIN params] :
     \A i, j \in DOMAIN s : i # j => s[i] # s[j]}

\* the inputs of the calls: prices and tick sizes as in TestFormatPrice, parameters
\* as in TestGenerateSignature
TestPrices == {Dec(123456, 3), Dec(123451, 3)}
SmallPrices == {Dec(12345678, 8), Dec(25, 1), Dec(125, 3), Dec(7, 0)}
CoarseTicks == {<<"1">>, <<"1", "0">>, <<"0", ".", "5">>, <<"0", ".", "1">>, <<"0", ".", "0", "1">>,
                <<"0", ".", "0", "0", "0", "1">>, <<"i", "n", "v", "a", "l", "i", "d">>}
FineTicks == {<<"0", ".", "0", "0", "0", "0", "1">>,
              <<"0", ".", "0", "0", "0", "0", "0", "0", "0", "1">>}
FormatInputs == (TestPrices \X CoarseTicks) \cup (SmallPrices \X (CoarseTicks \cup FineTicks))

ParamKeys == {<<"a">>, <<"b">>, <<"a", "b">>, <<"B">>}
ParamValues == {<<"1">>, <<"2">>}
Insertions ==
  {ins \in UNION {[1 .. n -> ParamKeys \X ParamValues] : n \in 0 .. MaxParams} :
     \A i, j \in DOMAIN ins : i # j => ins[i][1] # ins[j][1]}

UtilCalls ==
  {[NoUtil EXCEPT !.fn = "FormatPrice", !.pc = "call", !.price = pt[1], !.tickSize = pt[2]] :
     pt \in FormatInputs}
  \cup {[NoUtil EXCEPT !.fn = "GenerateSignature", !.pc = "call", !.secretKey = ks[1], !.ins = ks[2]] :
          ks \in {"key", "other"} \X Insertions}

U_FormatPrice ==
  /\ panicked = ""
  /\ util.fn = "FormatPrice" /\ util.pc = "call"
  /\ util' = [util EXCEPT !.pc = "done", !.out = FormatPrice(util.price, util.tickSize)]
  /\ UNCHANGED <<tvars, fvars, active, mmMu, ctxDone, quote, activeOrders, mainPc, stopRead,
                 loops, napi, hist>>

U_GenerateSignature ==
  /\ panicked = ""
  /\ util.fn = "GenerateSignature" /\ util.pc = "call"
  /\ \E iter \in KeyOrders(MakeMap(util.ins)) :
       util' = [util EXCEPT !.pc = "done", !.iter = iter,
                            !.out = GenerateSignature(util.secretKey, MakeMap(util.ins), iter)]
  /\ UNCHANGED <<tvars, fvars, active, mmMu, ctxDone, quote, activeOrders, mainPc, stopRead,
                 loops, napi, hist>>

NextU ==
  \/ U_FormatPrice
  \/ U_GenerateSignature

\* the state in which a test calls a function of package utils
InitU ==
  /\ connection = 0 /\ alive = {} /\ nconn = 0
  /\ reconnecting = FALSE
  /\ responseHandlers = EmptyMap
  /\ wsMu = 0
  /\ done = FALSE
  /\ panicked = ""
  /\ nextId = 0
  /\ readers = <<>> /\ rc = <<>> /\ hm = {}
  /\ wire = {} /\ inbox = {}
  /\ breaks = 0 /\ closes = 0 /\ dups = 0
  /\ calls = EmptyMap /\ ncalls = 0
  /\ cur = [c \in Callers |-> 0]
  /\ reg = NewManager
  /\ omMu = FreeMu /\ om = NoOmCall
  /\ resting = {} /\ norders = 0
  /\ active = FALSE
  /\ mmMu = ""
  /\ ctxDone = FALSE
  /\ quote = NoQuote
  /\ util \in UtilCalls
  /\ activeOrders = EmptyMap
  /\ mainPc = "idle"
  /\ stopRead = EmptyMap
  /\ loops = <<>>
  /\ napi = 0
  /\ hist = NoHistory

SpecU == InitU /\ [][NextU]_vars

(* ---- properties ---- *)
\* the response to request id has been read and its handleMessage has run the handler
ResponseProcessed(id) ==
  /\ \A req \in wire : req.id # id
  /\ \A m \in inbox : m.id # id
  /\ \A t \in hm : t.msg.id = id => t.pc \in {"delete", "blocked"}

\* C1: with concurrent SendRequest calls and every request answered exactly once, in
\* any order, the handler of each call is invoked at most once, only with the response
\* whose id is the id returned to its caller, and exactly once when that response has
\* been processed.
C1_OwnResponseOnce ==
  \A k \in DOMAIN calls :
    /\ Len(calls[k].log) <= 1
    /\ \A i \in 1 .. Len(calls[k].log) :
         calls[k].retId # 0 /\ calls[k].log[i] = calls[k].retId
    /\ (calls[k].retId # 0 /\ ResponseProcessed(calls[k].retId)) => Len(calls[k].log) = 1

\* C1 happens: two requests are out, and the later one is answered and handled first
C1_OutOfOrder ==
  \E j \in DOMAIN calls : \E k \in DOMAIN calls :
    /\ calls[j].retId # 0 /\ calls[k].retId > calls[j].retId
    /\ calls[k].log = <<calls[k].retId>>
    /\ ResponseProcessed(calls[k].retId)
    /\ calls[j].log = <<>>

\* C2: the handler registered under a request id is invoked at most once, also when
\* two inbound messages carry the same id and are handled by concurrent handleMessage
\* goroutines.
C2_AtMostOncePerId == \A k \in DOMAIN calls : Len(calls[k].log) <= 1

\* C3: a facade call whose request was sent returns exactly one of the parsed result,
\* the exchange's error or the timeout error, a result or an error only after a
\* response for its id was handled, the timeout when none was; and it always returns.
C3_Outcome ==
  \A k \in DOMAIN calls :
    (calls[k].st = "ret" /\ calls[k].retId # 0) =>
      /\ calls[k].out \in {"result", "error", "timeout"}
      /\ calls[k].out \in {"result", "error"} => calls[k].log = <<calls[k].retId>>
      /\ calls[k].log = <<>> => calls[k].out = "timeout"

C3_OneOutcome ==
  /\ []C3_Outcome
  /\ (cur[1] # 0 /\ calls[cur[1]].st = "wait") ~> (cur[1] = 0 \/ calls[cur[1]].st = "ret")

\* C3 happens: a call whose request was sent and never answered returned the timeout
C3_TimedOut ==
  \E k \in DOMAIN calls :
    /\ calls[k].st = "ret" /\ calls[k].retId # 0
    /\ calls[k].out = "timeout" /\ calls[k].log = <<>>
    /\ \E req \in wire : req.id = calls[k].retId

\* C4: a second Stop after a Stop of the running market maker returns as a no-op: no
\* call of Stop waits for a lock that an earlier Stop still holds.
C4_StopNeverBlocks == ~(mainPc = "stop" /\ mmMu = "Stop")

\* the tradingLoop goroutines that have not returned
LiveLoops == {l \in 1 .. Len(loops) : loops[l].pc # "exit"}

\* C5: over any sequence of Start and Stop calls at most one tradingLoop exists at any
\* time, and a Start while running changes no state and launches no goroutine.
C5_OneLoop ==
  /\ [](Cardinality(LiveLoops) <= 1)
  /\ [][(mainPc = "start" /\ mainPc' = "idle" /\ active)
          => UNCHANGED <<tvars, fvars, active, mmMu, ctxDone, activeOrders, stopRead, loops>>]_vars

\* C5 happens: Start returned as a no-op while the loop is running
C5_StartWhileRunning == hist.startNoops /\ active /\ Cardinality(LiveLoops) = 1

\* C6: once Stop has returned and the loop is not inside a refresh, a CancelOrder was
\* issued for every order the exchange accepted from the market maker.
C6_NoOrderLeaked ==
  (mmMu = "Stop" /\ \A l \in 1 .. Len(loops) : loops[l].pc \in {"select", "tick", "exit"})
    => \A o \in 1 .. norders : o \in hist.cancelIssued

\* C7: every order id in activeOrders was returned by a PlaceOrder that succeeded and
\* has a record in the order manager.
C7_PoolConfirmed ==
  \A o \in DOMAIN activeOrders : o \in hist.placed /\ HasOrder(reg, o)

\* C7 happens: both quotes of a refresh are in the pool
C7_TwoQuotes == Cardinality(DOMAIN activeOrders) = 2

\* C8: once Stop has set active to false the market maker sends no order.place request.
C8_NoPlaceAfterStop ==
  [][\A k \in DOMAIN calls :
       (/\ calls[k].op = "order.place" /\ calls[k].st = "sr_check"
        /\ k \in DOMAIN calls' /\ calls'[k].st = "wait") => active]_vars

\* C9: Stop issues one CancelOrder for every order id that was in activeOrders when it
\* drained the map, and when Stop has returned activeOrders is empty.
C9_StopDrains ==
  mmMu = "Stop" => (DOMAIN activeOrders = {} /\ hist.drained \subseteq hist.stopCancels)

\* C10: Close may be called any number of times, before any Connect too, and no call
\* panics.
C10_CloseNeverPanics == panicked # "close of closed channel"

\* call k is inside Client.SendRequest
InSendRequest(k) == calls[k].st \in {"sr_check", "sr_reg", "sr_lock", "sr_writing", "sr_fail"}

(* C11: once a write on the connection has failed, every SendRequest call that
   is entered afterwards returns, with a request id or with an error *)
C11_LaterCallsReturn ==
  (hist.writeFailed /\ cur[1] # 0 /\ calls[cur[1]].st = "sr_check")
    ~> (cur[1] = 0 \/ ~InSendRequest(cur[1]))

\* the reconnection goroutines that have not finished their attempts
RunningReconnects == {i \in 1 .. Len(rc) : rc[i].pc # "done"}

(* C12: at most one reconnection goroutine is running at any time, whatever the
   interleaving of the read failures of the readers and the write failures of
   SendRequest *)
C12_OneReconnect == Cardinality(RunningReconnects) <= 1

\* a failed read and a failed write both called attemptReconnect, one goroutine runs
C12_BothFailuresOneTask ==
  /\ Len(rc) = 1 /\ rc[1].pc # "done"
  /\ \E r \in 1 .. Len(readers) : readers[r].pc = "exit" /\ readers[r].conn # 0
  /\ \E k \in DOMAIN calls :
       calls[k].st = "ret" /\ calls[k].out = "senderr" /\ calls[k].conn # 0

\* SendRequest found no connection: the not-connected error, nothing written,
\* no reconnection started
C13_FailsWithoutWriting ==
  [][\A k \in DOMAIN calls :
       (calls[k].st = "sr_check" /\ connection = 0 /\ calls'[k].st # "sr_check")
         => /\ calls'[k].st = "ret" /\ calls'[k].out = "senderr"
            /\ wire' = wire /\ rc' = rc /\ reconnecting' = reconnecting]_vars

(* C13: without a connection SendRequest fails with the not-connected error,
   writes nothing and starts no reconnection; once the reconnection attempts
   are exhausted the client stays without a connection until Connect is
   called again *)
C13_DisconnectedUntilConnect == hist.exhausted => connection = 0

\* the step is a call of the order manager's method op that has returned
OmReturns(op) == om'.n = om.n + 1 /\ om'.op = op /\ om'.pc = "idle"

(* C14: after TrackOrder(order) with a non-empty client order id, GetOrder by
   the order id and GetClientOrders by the client order id both find the same
   record, which equals the order; with an empty client order id only the key
   of the orders map is added *)
C14_TrackedUnderBothKeys ==
  [][OmReturns("TrackOrder") =>
       LET order == om'.arg
           ptr == OrderPtr(reg', order.orderId)
       IN /\ ptr # 0
          /\ reg'.heap[ptr].order = order
          /\ DOMAIN reg'.orders = DOMAIN reg.orders \cup {order.orderId}
          /\ IF order.clientOrderId # 0
             THEN ClientOrderPtr(reg', order.clientOrderId) = ptr
             ELSE DOMAIN reg'.clientOrders = DOMAIN reg.clientOrders]_vars

\* GetClientOrders returned the record that GetOrder returns for its order id
C14_SameRecordByClientId ==
  /\ om.op = "GetClientOrders" /\ om.ptr # 0
  /\ om.ptr = OrderPtr(reg, reg.heap[om.ptr].order.orderId)
  /\ reg.heap[om.ptr].order.clientOrderId = om.id

\* the order ids of the orders in a result of GetOrdersByStatus(es)
IdsIn(list) == {o.orderId : o \in BagToSet(list)}

(* C15: GetActiveOrders returns the tracked orders that are NEW or
   PARTIALLY_FILLED and GetOrdersByStatus(s) those with status s: once
   UpdateOrder has set a tracked order to FILLED, that order is not among the
   active orders and is among the FILLED ones *)
C15_FilledLeavesActive ==
  [][(OmReturns("UpdateOrder") /\ om'.err = "" /\ om'.arg.status = "FILLED") =>
       /\ om'.arg.orderId \notin IdsIn(GetOrdersByStatuses(reg', ActiveStatuses))
       /\ om'.arg.orderId \in IdsIn(GetOrdersByStatus(reg', "FILLED"))]_vars

(* C16: UpdateOrder(order) with neither the order id nor the client order id
   known returns the not-found error and leaves both maps and every record as
   they were *)
C16_UnknownUpdateChangesNothing ==
  [][(OmReturns("UpdateOrder")
        /\ om'.arg.orderId \notin DOMAIN reg.orders
        /\ om'.arg.clientOrderId \notin DOMAIN reg.clientOrders)
       => (om'.err = "order not found" /\ reg' = reg)]_vars

\* an update missed a registry that holds other orders
C16_MissedUpdate ==
  /\ om.op = "UpdateOrder" /\ om.err = "order not found"
  /\ DOMAIN reg.orders # {} /\ DOMAIN reg.clientOrders # {}

(* C17: RemoveOrder(orderId) returns: for a tracked order after deleting its
   record from both maps, for an untracked one with the not-found error and
   the registry unchanged *)
C17_RemoveReturns == om.op = "RemoveOrder" => om.pc # "blocked"

(* C18: every record the clientOrders map leads to is the record the orders
   map holds under that record's order id, and it is filed under its own
   client order id *)
C18_ClientMapAgrees ==
  \A c \in DOMAIN reg.clientOrders :
    LET order == reg.heap[reg.clientOrders[c]].order IN
    /\ OrderPtr(reg, order.orderId) = reg.clientOrders[c]
    /\ order.clientOrderId = c

(* C19: once the status of a tracked order is FILLED, CANCELED, REJECTED or
   EXPIRED, no TrackOrder or UpdateOrder gives that order another status *)
C19_TerminalStatusKept ==
  [][\A o \in DOMAIN reg.orders \cap DOMAIN reg'.orders :
       GetOrder(reg, o).status \in TerminalStatuses
         => GetOrder(reg', o).status = GetOrder(reg, o).status]_vars

\* the book cut down to its best bid and its best ask
TopOfBook(orderbook) == [bids |-> SubSeq(orderbook.bids, 1, 1), asks |-> SubSeq(orderbook.asks, 1, 1)]

\* C20: once a refresh has placed its orders, they are a BUY limit order and then
\* a SELL limit order; the BUY price is mid - mid * spreadPercentage / 100 and the
\* SELL price mid + mid * spreadPercentage / 100, for mid the mean of the best bid
\* and the best ask alone, each formatted to the tick size; a best bid of 9000.0,
\* a best ask of 9100.0, a spread of 1.0 and a tick size of "0.01" give "8959.50"
\* and "9140.50"
C20_QuotesFromTopOfBook ==
  quote.pc = "done" =>
    /\ quote.placed =
         <<[side |-> "BUY", type |-> "LIMIT",
            price |-> bidPriceStr(TopOfBook(quote.orderbook), quote.spreadPercentage,
                                  quote.tickSize)],
           [side |-> "SELL", type |-> "LIMIT",
            price |-> askPriceStr(TopOfBook(quote.orderbook), quote.spreadPercentage,
                                  quote.tickSize)]>>
    /\ ( /\ quote.orderbook.bids[1] = Dec(9000, 0)
         /\ quote.orderbook.asks[1] = Dec(9100, 0)
         /\ quote.spreadPercentage = Dec(1, 0)
         /\ quote.tickSize = <<"0", ".", "0", "1">> )
       => /\ quote.placed[1].price = <<"8", "9", "5", "9", ".", "5", "0">>
          /\ quote.placed[2].price = <<"9", "1", "4", "0", ".", "5", "0">>

\* C20 happens: the refresh of the example, over a book with deeper levels on
\* both sides, has placed both orders
C20_ExampleQuoted ==
  /\ quote.pc = "done"
  /\ Len(quote.placed) = 2
  /\ Len(quote.orderbook.bids) > 1 /\ Len(quote.orderbook.asks) > 1
  /\ quote.orderbook.bids[1] = Dec(9000, 0)
  /\ quote.orderbook.asks[1] = Dec(9100, 0)
  /\ quote.spreadPercentage = Dec(1, 0)
  /\ quote.tickSize = <<"0", ".", "0", "1">>

\* the number of digits after the point of a decimal string
DecimalDigits(str) ==
  LET dots == {i \in 1 .. Len(str) : str[i] = "."}
  IN IF dots = {} THEN 0 ELSE Len(str) - (CHOOSE i \in dots : TRUE)

\* str is a decimal string with `places` digits after the point whose value is the
\* multiple of unit nearest to price, the upper one in a tie when tiesUp
NearestMultiple(str, places, unit, price, tiesUp) ==
  LET r == ParseFloat(str)
      S == IF DecScale(price, unit) >= r.val.s THEN DecScale(price, unit) ELSE r.val.s
      P == Scaled(price, S)
      T == Scaled(unit, S)
      V == Scaled(r.val, S)
      twice == IF V >= P THEN 2 * (V - P) ELSE 2 * (P - V)
  IN /\ r.ok
     /\ DecimalDigits(str) = places
     /\ V % T = 0
     /\ twice <= T
     /\ (tiesUp /\ twice = T) => V > P

\* C21: FormatPrice with a valid tick size returns a string with as many decimal
\* digits as the tick size has, whose value is the multiple of the tick size
\* nearest to the price, ties away from zero; with a malformed tick size it
\* returns the price with 2 decimal digits
C21_QuantizedToTick ==
  (util.fn = "FormatPrice" /\ util.pc = "done") =>
    IF ParseFloat(util.tickSize).ok
    THEN NearestMultiple(util.out, DecimalDigits(util.tickSize),
                         ParseFloat(util.tickSize).val, util.price, TRUE)
    ELSE NearestMultiple(util.out, 2, Dec(1, 2), util.price, FALSE)

\* the keys of params in ascending order: the one arrangement that ascends
Ascending(params) ==
  CHOOSE s \in KeyOrders(params) : \A i \in 1 .. Len(s) - 1 : StrLess(s[i], s[i + 1])

\* C22: the signature is the HMAC-SHA256, under the secret, of the pairs sorted by
\* key ascending and joined as key=value with &, in whatever order the map
\* yielded its keys; the same pairs inserted in any other order give the same
\* signature
C22_SignatureOfSortedPairs ==
  (util.fn = "GenerateSignature" /\ util.pc = "done") =>
    LET params == MakeMap(util.ins)
        keys == Ascending(params)
    IN /\ util.out =
            GenerateHMAC(util.secretKey,
                         Join([i \in 1 .. Len(keys) |-> keys[i] \o <<"=">> \o params[keys[i]]],
                              <<"&">>))
       /\ \A order \in KeyOrders([i \in DOMAIN util.ins |-> i]) :
            GenerateSignature(util.secretKey,
                              MakeMap([i \in DOMAIN util.ins |-> util.ins[order[i]]]),
                              util.iter) = util.out

\* C22 happens: three pairs inserted out of order and yielded by the map in yet
\* another order that is not ascending either have been signed
C22_SignedOutOfOrder ==
  /\ util.fn = "GenerateSignature" /\ util.pc = "done"
  /\ Len(util.ins) = 3
  /\ [i \in 1 .. 3 |-> util.ins[i][1]] # Ascending(MakeMap(util.ins))
  /\ util.iter # Ascending(MakeMap(util.ins))
  /\ util.iter # [i \in 1 .. 3 |-> util.ins[i][1]]
  /\ util.out.data = <<"B", "=", "1", "&", "a", "=", "2", "&", "a", "b", "=", "1">>

\* C23: while the market maker is running (active, context not cancelled) no
\* tradingLoop has returned, whatever failed in its refreshes, and a loop that
\* handles a tick while running goes on to the next refresh
C23_FailedRefreshKeepsLoop ==
  /\ []((active /\ ~ctxDone) => \A l \in 1 .. Len(loops) : loops[l].pc # "exit")
  /\ [][\A l \in 1 .. Len(loops) :
          (loops[l].pc = "tick" /\ loops'[l].pc # "tick" /\ active) => loops'[l].pc = "update"]_vars

\* C23 happens: the refresh before the tick did not place its two orders (the book
\* was refused, timed out or empty, or a placement failed), and the loop, still
\* running, is starting the refresh of the tick
C23_RefreshAfterFailure ==
  /\ active /\ ~ctxDone
  /\ Cardinality(hist.placed) < 2
  /\ \E l \in 1 .. Len(loops) : loops[l].pc = "update" /\ loops[l].ticks = 1

\* the closure of task t has run on its message in this step
Invoked(t) == t \in hm /\ t.pc = "invoke" /\ t \notin hm'

\* C24: a closure that runs on a response carrying an error object sends nothing
\* on the result channel and, unless the error channel is full, sends the API
\* error on it, whatever the operation and the status
C24_ErrorObjectFails ==
  [][\A t \in hm :
       (Invoked(t) /\ t.msg.error) =>
         /\ calls'[t.h].res = calls[t.h].res
         /\ Len(calls[t.h].err) < ChanCap => calls'[t.h].err = Append(calls[t.h].err, "api")]_vars

\* C25: when the closure of CancelOrder runs on a successful response (status 200,
\* no error object) for an order the order manager holds under neither key, so
\* that UpdateOrder returns its not-found error, it sends no result to the caller
C25_RegistryErrorSurfaced ==
  [][\A t \in hm :
       ( /\ Invoked(t)
         /\ calls[t.h].op = "order.cancel"
         /\ t.msg.status = 200 /\ ~t.msg.error
         /\ UpdateTarget(reg, t.msg.result) = 0 )
       => calls'[t.h].res = calls[t.h].res]_vars

\* C26: Client.mu is not held by a call while its WriteMessage is in progress (the
\* reader reads and the handlers run without it: R_Read and H_Invoke take no lock)
C26_NoLockAcrossWrite ==
  \A k \in DOMAIN calls : calls[k].st = "sr_writing" => wsMu # k

\* the readMessages goroutines blocked in ReadMessage on the current connection
CurrentReaders ==
  {r \in 1 .. Len(readers) : readers[r].pc = "reading" /\ readers[r].conn = connection}

\* C27: at most one readMessages goroutine reads from the current connection, and
\* none calls ReadMessage on a nil connection
C27_OneReaderOfCurrentConnection ==
  /\ panicked # "nil connection"
  /\ Cardinality(CurrentReaders) <= 1

\* C28: once Stop has cancelled the context every tradingLoop goroutine eventually
\* returns (unless the loop is out of the facade calls this model allows it), and
\* from then on no goroutine enters updateMarketState
C28_LoopTerminatesAfterStop ==
  /\ ctxDone ~> ((\A l \in 1 .. Len(loops) : loops[l].pc = "exit") \/ ncalls = MaxMMCalls)
  /\ [][ctxDone => \A l \in 1 .. Len(loops) :
                     loops[l].pc # "update" => loops'[l].pc # "update"]_vars

\* d doubled n times
RECURSIVE Doubled(_, _)
Doubled(d, n) == IF n = 0 THEN d ELSE 2 * Doubled(d, n - 1)

\* C29: a reconnection goroutine dials only while it has failed fewer than 5 times,
\* so it dials at most 5 times; the sleep after its k-th failure lasts 1 s doubled
\* k-1 times; every goroutine attemptReconnect starts begins with no failure counted
\* and the delay at 1 s, whatever the episodes before it did
C29_BoundedBackoff ==
  /\ [](\A i \in 1 .. Len(rc) :
          /\ rc[i].attempts <= 5
          /\ rc[i].pc = "dial" => rc[i].attempts < 5
          /\ rc[i].pc = "sleep" => rc[i].attempts >= 1 /\ rc[i].delay = Doubled(1, rc[i].attempts - 1))
  /\ [][\A i \in 1 .. Len(rc') :
          i > Len(rc) => rc'[i].pc = "dial" /\ rc'[i].attempts = 0 /\ rc'[i].delay = 1]_vars

\* C29 happens: the first episode failed 5 times and gave up, and the second
\* episode sleeps 4 s after its third failure
C29_SecondEpisodeBacksOff ==
  /\ Len(rc) = 2
  /\ rc[1].pc = "done" /\ rc[1].attempts = 5
  /\ rc[2].pc = "sleep" /\ rc[2].attempts = 3 /\ rc[2].delay = 4

\* call k waits for the response to a request it wrote on a connection that is
\* gone, and its handler has not run
Lost(k) == calls[k].st = "wait" /\ calls[k].conn \notin alive /\ calls[k].log = <<>>

\* C30: the handler of a request written before a disconnect stays in the dispatch
\* table, whatever reconnection follows; the steps of the disconnect and of the
\* reconnection change no entry of the table and run no handler; and the caller
\* waiting for such a request returns with the timeout error
C30_ReconnectKeepsHandlers ==
  /\ [](\A k \in DOMAIN calls :
          Lost(k) => /\ calls[k].id \in DOMAIN responseHandlers
                     /\ responseHandlers[calls[k].id] = k)
  /\ [][(connection' # connection \/ alive' # alive \/ reconnecting' # reconnecting \/ rc' # rc)
          => /\ responseHandlers' = responseHandlers
             /\ \A k \in DOMAIN calls : k \in DOMAIN calls' /\ calls'[k].log = calls[k].log]_vars
  /\ [][\A k \in DOMAIN calls :
          (Lost(k) /\ k \in DOMAIN calls' /\ calls'[k].st = "ret") => calls'[k].out = "timeout"]_vars

\* C30 happens: the connection of a request was lost, a reconnection succeeded,
\* the caller returned with the timeout error and the handler is still registered
C30_TimedOutAfterReconnect ==
  \E k \in DOMAIN calls :
    /\ calls[k].st = "ret" /\ calls[k].out = "timeout"
    /\ calls[k].conn # 0 /\ calls[k].conn \notin alive
    /\ connection \in alive /\ connection # calls[k].conn
    /\ \E i \in 1 .. Len(rc) : rc[i].pc = "done"
    /\ calls[k].id \in DOMAIN responseHandlers

\* the states in which a call is inside SendRequest
Sending == {"sr_check", "sr_reg", "sr_lock", "sr_writing", "sr_fail"}

\* the step in which caller 1 enters GetOrderStatus(orderId) as call k
Enters(k, orderId) ==
  /\ k \notin DOMAIN calls /\ k \in DOMAIN calls'
  /\ calls'[k].op = "order.status" /\ calls'[k].arg.orderId = orderId

\* C31: GetOrderStatus of an order the order manager holds returns the manager's
\* record at once and sends nothing; of an order it does not hold it runs one
\* SendRequest that writes one order.status request for that id, and the closure
\* tracks the order of a successful response; of the id -1 it fails at once, sends
\* nothing and leaves the order manager as it is
C31_StatusFromRegistryFirst ==
  /\ [][\A k \in 1 .. MaxCalls : \A orderId \in StatusIds :
          Enters(k, orderId) =>
            IF orderId = 0 - 1
            THEN /\ calls'[k].st = "ret" /\ calls'[k].out = "invalid"
                 /\ reg' = reg /\ wire' = wire /\ responseHandlers' = responseHandlers
            ELSE IF HasOrder(reg, orderId)
                 THEN /\ calls'[k].st = "ret" /\ calls'[k].out = "result"
                      /\ calls'[k].val = GetOrder(reg, orderId)
                      /\ reg' = reg /\ wire' = wire /\ responseHandlers' = responseHandlers
                 ELSE calls'[k].st = "sr_check"]_vars
  /\ [][\A k \in DOMAIN calls :
          /\ (calls[k].st \notin Sending /\ k \in DOMAIN calls') => calls'[k].st \notin Sending
          /\ wire' # wire /\ calls[k].st = "sr_writing" /\ calls'[k].st = "wait"
               => /\ Cardinality(wire' \ wire) = 1
                  /\ \A req \in wire' \ wire :
                       req.id = calls[k].id /\ req.op = "order.status" /\ req.arg = calls[k].arg]_vars
  /\ [][\A t \in hm :
          (Invoked(t) /\ calls[t.h].op = "order.status" /\ ~IsFailure("order.status", t.msg))
            => /\ HasOrder(reg', t.msg.result.orderId)
               /\ GetOrder(reg', t.msg.result.orderId) = t.msg.result]_vars

\* C31 happens: the first call missed, fetched order 1 (CANCELED at the exchange)
\* and tracked it; the second call returned that record without a request
C31_SecondCallFromRegistry ==
  /\ ncalls = 2 /\ 2 \in DOMAIN calls
  /\ calls[2].st = "ret" /\ calls[2].out = "result" /\ calls[2].id = 0
  /\ calls[2].val = ExOrder(1, "CANCELED")
  /\ nextId = 1 /\ wire = {} /\ inbox = {}

\* the positions of a tradingLoop inside refreshOrders
InRefreshOrders == {"copy", "cancel", "cancelled", "check", "place", "placed", "add"}

\* in this step caller c enters a facade operation as call k
Calls(c, k) == k \notin DOMAIN calls /\ k \in DOMAIN calls' /\ calls'[k].caller = c

\* C32: a loop is inside refreshOrders only over a book with bids and asks; it
\* calls CancelOrder and PlaceOrder only inside refreshOrders; and the pool changes
\* only inside refreshOrders or in Stop. So a refresh whose book lacks a side sends
\* no cancel and no placement and leaves the pool as it is
C32_EmptyBookSkipsRefresh ==
  /\ [](\A l \in 1 .. Len(loops) :
          loops[l].pc \in InRefreshOrders
            => loops[l].orderbook.bids > 0 /\ loops[l].orderbook.asks > 0)
  /\ [][\A l \in 1 .. Len(loops) : \A k \in 1 .. MaxMMCalls :
          (Calls(LoopCaller(l), k) /\ calls'[k].op \in {"order.cancel", "order.place"})
            => loops[l].pc \in InRefreshOrders]_vars
  /\ [][activeOrders' # activeOrders
          => (mainPc = "stop" \/ \E l \in 1 .. Len(loops) : loops[l].pc \in InRefreshOrders)]_vars

\* C32 happens: the refresh of the tick got a book with bids and no asks; it is
\* over, no cancel was sent and the pool holds its two orders
C32_OneSidedBookSkipped ==
  /\ loops[1].pc = "select" /\ loops[1].ticks = 1
  /\ loops[1].orderbook = [bids |-> 1, asks |-> 0]
  /\ ncalls = 1 /\ hist.cancelIssued = {}
  /\ DOMAIN activeOrders = {1, 2}

\* C33: the cancel step starts from a copy of the pool; it leaves the copy only by
\* issuing a CancelOrder for one of its ids, or when the copy is used up; and when
\* that CancelOrder has returned, with a result, an error or the timeout, the id is
\* gone from the pool and from the copy
C33_EveryPooledOrderCancelled ==
  [][\A l \in 1 .. Len(loops) :
       LET c == LoopCaller(l) IN
       /\ (loops[l].pc = "copy" /\ loops'[l].pc # "copy")
            => loops'[l].pc = "cancel" /\ loops'[l].read = activeOrders
       /\ (loops[l].pc = "cancel" /\ loops'[l].pc # "cancel")
            => \/ /\ loops'[l].pc = "cancelled"
                  /\ loops'[l].oid \in DOMAIN loops[l].read
                  /\ loops'[l].read = loops[l].read
                  /\ \E k \in 1 .. MaxMMCalls :
                       /\ Calls(c, k) /\ calls'[k].op = "order.cancel"
                       /\ calls'[k].arg.orderId = loops'[l].oid
               \/ loops[l].read = EmptyMap
       /\ (loops[l].pc = "cancelled" /\ loops'[l].pc # "cancelled")
            => /\ calls[cur[c]].out \in {"result", "error", "timeout"}
               /\ loops[l].oid \notin DOMAIN activeOrders'
               /\ loops'[l].pc = "cancel"
               /\ loops'[l].read = [o \in DOMAIN loops[l].read \ {loops[l].oid} |-> loops[l].read[o]]]_vars

\* C33 happens: both cancels of the refresh were issued and neither was carried
\* out by the exchange (refused, or timed out unanswered), and the pool is empty
\* although the market maker is running
C33_FailedCancelsRemoved ==
  /\ active /\ loops[1].pc = "check" /\ loops[1].cancelFailed
  /\ hist.cancelIssued = {1, 2} /\ resting = {1, 2}
  /\ activeOrders = EmptyMap

\* C34: when the BUY placement fails, in the IsActive test or in PlaceOrder, the
\* refresh is over and the pool is as it was; a loop turns to the SELL side only
\* from the BUY order it has just put into the pool; and it calls PlaceOrder for
\* SELL only then, with no call of its own still open
C34_SellOnlyAfterBuy ==
  [][\A l \in 1 .. Len(loops) :
       LET c == LoopCaller(l) IN
       /\ (/\ loops[l].pc = "placed" /\ loops'[l].pc # "placed" /\ loops[l].side = "BUY"
           /\ calls[cur[c]].out # "result")
            => loops'[l].pc = "select" /\ loops'[l].side # "SELL" /\ activeOrders' = activeOrders
       /\ (/\ loops[l].pc = "check" /\ loops'[l].pc # "check" /\ loops[l].side = "BUY" /\ ~active)
            => loops'[l].pc = "select" /\ loops'[l].side # "SELL" /\ activeOrders' = activeOrders
       /\ (loops'[l].side = "SELL" /\ loops[l].side # "SELL")
            => /\ loops[l].pc = "add" /\ loops[l].side = "BUY"
               /\ loops[l].oid \in hist.placed
               /\ loops[l].oid \in DOMAIN activeOrders' /\ activeOrders'[loops[l].oid] = "BUY"
       /\ \A k \in 1 .. MaxMMCalls :
            (Calls(c, k) /\ calls'[k].op = "order.place" /\ calls'[k].arg.side = "SELL")
              => loops[l].pc = "place" /\ loops[l].side = "SELL" /\ cur[c] = 0]_vars

\* C34 happens: the BUY placement of the refresh failed after both cancels, the
\* refresh is over, and the pool of the running market maker is empty
C34_BuyFailed ==
  /\ active /\ mainPc = "idle"
  /\ loops[1].pc = "select" /\ loops[1].ticks = 1 /\ loops[1].side = "BUY"
  /\ ncalls = 4 /\ hist.cancelIssued = {1, 2}
  /\ activeOrders = EmptyMap

\* C35: a refresh in which a CancelOrder failed calls PlaceOrder no more
C35_FailedCancelAbortsPlacement ==
  [][\A l \in 1 .. Len(loops) : \A k \in 1 .. MaxMMCalls :
       (Calls(LoopCaller(l), k) /\ calls'[k].op = "order.place") => ~loops[l].cancelFailed]_vars

\* C39: the market maker (its loops and Stop) calls CancelOrder for an order id
\* only when it has not called CancelOrder for that id before
C39_OneCancelPerOrder ==
  [][\A k \in 1 .. MaxMMCalls :
       (k \notin DOMAIN calls /\ k \in DOMAIN calls' /\ calls'[k].op = "order.cancel")
         => calls'[k].arg.orderId \notin hist.cancelIssued]_vars

\* C36: the record GetOrder or GetClientOrders has just returned to the caller is
\* not changed by the next operation on the order manager (while the manager
\* still holds the OrderState the caller's pointer leads into)
C36_ReturnedRecordIsOwned ==
  [][(/\ om.op \in {"GetOrder", "GetClientOrders"} /\ om.pc = "idle" /\ om.ptr # 0
      /\ om.ptr \in DOMAIN reg.heap /\ om.ptr \in DOMAIN reg'.heap)
       => reg'.heap[om.ptr].order = reg.heap[om.ptr].order]_vars

\* C37: once Close has closed the done channel no attemptReconnect starts a
\* reconnection goroutine and no reconnection goroutine installs a connection
C37_NoReconnectAfterClose ==
  [][done => /\ Len(rc') = Len(rc)
             /\ \A i \in 1 .. Len(rc) : ~(rc[i].pc = "dial" /\ rc'[i].pc = "done")]_vars

\* C38: when SendRequest has returned an error to call k, the dispatch table holds
\* no handler of call k
C38_FailedSendLeavesNoHandler ==
  \A k \in DOMAIN calls :
    (calls[k].st = "ret" /\ calls[k].out = "senderr")
      => \A id \in DOMAIN responseHandlers : responseHandlers[id] # k

====
